---- MODULE Spec2Model ----
(***************************************************************************)
(* TouchWand WallWand device driver: the serialized command queue, the     *)
(* root-report debouncer and the per-endpoint state synchronizer of        *)
(* WallWandDevice, with the flow action cards of TouchWandApp that feed    *)
(* the queue.                                                              *)
(*                                                                         *)
(* Scheduling.  JavaScript runs one macrotask at a time.  An action of     *)
(* this module is one macrotask: a handler, a timer callback or the        *)
(* continuation of an awaited I/O call, run up to the next await of an     *)
(* I/O call (addCapability, removeCapability, a protocol GET,              *)
(* setStoreValue, a timer).  An await of an already finished async         *)
(* function only yields to the microtask queue and is not a suspension     *)
(* point here.  The continuations of a promise settled inside a macrotask  *)
(* (the caller awaiting queueCapabilityCommand) run at the end of that     *)
(* macrotask and are part of its action.                                   *)
(*                                                                         *)
(* Time.  Clocks are in milliseconds and advance by TickMs.  A due timer   *)
(* fires before time advances and before a later event is handled.         *)
(***************************************************************************)
EXTENDS Integers, Sequences, FiniteSets

\* ---------------------------------------------------------------- constants

COMMAND_DELAY_MS == 250
SYNC_DEBOUNCE_MS == 200
Z_WAVE_MAX_DIM_VALUE == 99

\* ------------------------------------------------------------------- bounds

\* Milliseconds per step of the clock.
TickMs == 100
\* Commands enqueued in one behaviour.
MaxCmds == 3
\* Highest endpoint id of the node (ids are 1..MaxEndpoint).
MaxEndpoint == 2
\* Sync passes in flight at once.
MaxTasks == 2
\* I/O failures (capability add/remove, store write) injected in one behaviour.
MaxFaults == 1
\* Calls of _discoverAllEndpoints in succession.
MaxRuns == 2

\* Direct _syncOneEndpointState calls followed.
MaxSyncs == 3

Endpoints == 1..MaxEndpoint

Min(a, b) == IF a < b THEN a ELSE b
Max(a, b) == IF a > b THEN a ELSE b

\* Sequence s without its i-th element.
RemoveAt(s, i) == [k \in 1..(Len(s) - 1) |-> IF k < i THEN s[k] ELSE s[k + 1]]

\* ------------------------------------------------------------------- state

VARIABLES
    \* WallWandDevice fields
    endpointTypes,      \* _endpointTypes: id -> "undefined" | "null" | "dimmer" | "switch"
    listeners,          \* _listeners: the command classes with a registered root listener
    syncTimeout,        \* _syncTimeout: handle of the last debounce timer, 0 = null
    healthCheckInterval, \* _healthCheckInterval is set (it holds the handle of an interval)
    commandQueue,       \* _commandQueue
    isProcessingQueue,  \* _isProcessingQueue
    \* platform (Homey device, store, Z-Wave node, timers)
    caps,               \* capabilities the device has: <<"onoff", id>>, <<"dim", id>>
    capValue,           \* capability values: <<>> = never set, <<v>> = v
    store,              \* persisted store value 'endpointTypes'
    topology,           \* node.MultiChannelNodes: id -> endpoint descriptor
    timers,             \* pending setTimeout timers of the debouncer
    intervals,          \* number of running setInterval timers of the health check
    \* asynchronous activities in flight
    loops,              \* running invocations of _processCommandQueue
    tasks,              \* running sync passes
    futures,            \* promise of each queueCapabilityCommand call, by call number
    dimWaiters,         \* set_endpoint_dim runs awaiting their dim command
    \* observation
    applied,            \* call numbers in the order their handler was invoked
    outcome,            \* handler outcome of each call: "none" | "ok" | "fail"
    sinceEnd,           \* ms since a handler last finished (saturates)
    lastGap,            \* sinceEnd at the last handler invocation
    sinceReport,        \* per class, ms since its last root report (saturates)
    owed,               \* per class, a root report was received and not yet synced
    faults,             \* I/O failures injected so far
    discovered,         \* the registry at the end of each completed _discoverAllEndpoints call
    syncs,              \* the readings applied by direct _syncOneEndpointState calls
    deleted,            \* onDeleted has run
    events,             \* flow trigger events fired by the last step
    entered,            \* the endpoints whose processing the last step began, per pass
    lastStep            \* the last step: its operation, endpoint and report class

queueVars == <<commandQueue, isProcessingQueue, loops, futures, dimWaiters,
               applied, outcome, sinceEnd, lastGap>>
debounceVars == <<listeners, syncTimeout, timers, sinceReport, owed,
                  healthCheckInterval, intervals>>
vars == <<endpointTypes, listeners, syncTimeout, commandQueue, isProcessingQueue,
          caps, capValue, store, topology, timers, loops, tasks, futures,
          dimWaiters, applied, outcome, sinceEnd, lastGap, sinceReport,
          owed, faults, deleted, events, entered, lastStep, discovered,
          syncs, healthCheckInterval, intervals>>

\* ------------------------------------------------------------ capabilities

OnOffCap(ep) == <<"onoff", ep>>
DimCap(ep) == <<"dim", ep>>
AllCaps == {OnOffCap(ep) : ep \in Endpoints} \cup {DimCap(ep) : ep \in Endpoints}

\* ---------------------------------------------------------- command queue

\* The queue-related state as one value, so that a handler's calls compose.
QueueState ==
    [commandQueue |-> commandQueue, isProcessingQueue |-> isProcessingQueue,
     loops |-> loops, futures |-> futures, dimWaiters |-> dimWaiters,
     applied |-> applied, outcome |-> outcome, sinceEnd |-> sinceEnd,
     lastGap |-> lastGap]

\* The head of the while loop of _processCommandQueue, reached by loop i of
\* s.loops (i = Len(s.loops) + 1 for a loop that just started): shift the next
\* command and invoke its capability listener, or leave the loop.
WhileHead(s, i) ==
    IF Len(s.commandQueue) > 0
    THEN LET command == Head(s.commandQueue)
             loop == [pc |-> "apply", command |-> command, left |-> 0]
         IN [s EXCEPT !.commandQueue = Tail(@),
                      !.loops = IF i > Len(@) THEN Append(@, loop)
                                ELSE [@ EXCEPT ![i] = loop],
                      !.applied = Append(@, command.n),
                      !.lastGap = s.sinceEnd]
    ELSE [s EXCEPT !.isProcessingQueue = FALSE,
                   !.loops = IF i > Len(@) THEN @ ELSE RemoveAt(@, i)]

\* _processCommandQueue(), from its call to its first await.
_processCommandQueue(s) ==
    IF s.isProcessingQueue THEN s
    ELSE WhileHead([s EXCEPT !.isProcessingQueue = TRUE], Len(s.loops) + 1)

\* A variant that pushes at the front of the queue.
queueCapabilityCommand_front(s, capabilityId, value) ==
    LET n == Len(s.futures) + 1
        pushed == [s EXCEPT
                     !.commandQueue = <<[n |-> n, capabilityId |-> capabilityId,
                                         value |-> value]>> \o @,
                     !.futures = Append(@, [status |-> "pending", calls |-> 0]),
                     !.outcome = Append(@, "none")]
    IN IF ~pushed.isProcessingQueue THEN _processCommandQueue(pushed) ELSE pushed

\* queueCapabilityCommand(capabilityId, value): the call is numbered n.
queueCapabilityCommand(s, capabilityId, value) ==
    LET n == Len(s.futures) + 1
        pushed == [s EXCEPT
                     !.commandQueue = Append(@, [n |-> n, capabilityId |-> capabilityId,
                                                 value |-> value]),
                     !.futures = Append(@, [status |-> "pending", calls |-> 0]),
                     !.outcome = Append(@, "none")]
    IN IF ~pushed.isProcessingQueue THEN _processCommandQueue(pushed) ELSE pushed

SetQueueState(s) ==
    /\ commandQueue' = s.commandQueue
    /\ isProcessingQueue' = s.isProcessingQueue
    /\ loops' = s.loops
    /\ futures' = s.futures
    /\ dimWaiters' = s.dimWaiters
    /\ applied' = s.applied
    /\ outcome' = s.outcome
    /\ sinceEnd' = s.sinceEnd
    /\ lastGap' = s.lastGap

Step(op, ep, cls) == [op |-> op, ep |-> ep, cls |-> cls]

\* resolve() / reject() of a promise: the first call settles it.
Settle(p, how) ==
    [status |-> IF p.status = "pending" THEN how ELSE p.status, calls |-> p.calls + 1]

\* Lines 209-217 of set_endpoint_dim after its first await: the continuation of
\* the run that awaits call n, once that call's promise is settled.
DimContinuation(s, n, ok) ==
    LET ws == {w \in s.dimWaiters : w.n = n}
        rest == [s EXCEPT !.dimWaiters = @ \ ws]
    IN IF ws = {} \/ ~ok THEN rest
       ELSE LET w == CHOOSE x \in ws : TRUE
            IN IF OnOffCap(w.ep) \in caps
               THEN queueCapabilityCommand(rest, OnOffCap(w.ep), w.level > 0)
               ELSE rest

\* A variant whose loop ends when a handler fails.
HandlerDone_stop(s, i, ok) ==
    LET command == s.loops[i].command
        settled == [s EXCEPT
                      !.futures[command.n] = Settle(@, IF ok THEN "resolved" ELSE "rejected"),
                      !.outcome[command.n] = IF ok THEN "ok" ELSE "fail",
                      !.sinceEnd = 0]
        next == IF ~ok THEN [settled EXCEPT !.loops = RemoveAt(@, i)]
                ELSE IF Len(settled.commandQueue) > 0
                THEN [settled EXCEPT
                        !.loops[i] = [pc |-> "delay", command |-> command,
                                      left |-> COMMAND_DELAY_MS]]
                ELSE WhileHead(settled, i)
    IN DimContinuation(next, command.n, ok)

\* _processCommandQueue from the return of triggerCapabilityListener (ok) or
\* its throw (~ok) to the next await: settle the command's promise, then wait
\* the delay if more commands are queued, else leave the loop.
HandlerDone(s, i, ok) ==
    LET command == s.loops[i].command
        settled == [s EXCEPT
                      !.futures[command.n] = Settle(@, IF ok THEN "resolved" ELSE "rejected"),
                      !.outcome[command.n] = IF ok THEN "ok" ELSE "fail",
                      !.sinceEnd = 0]
        next == IF Len(settled.commandQueue) > 0
                THEN [settled EXCEPT
                        !.loops[i] = [pc |-> "delay", command |-> command,
                                      left |-> COMMAND_DELAY_MS]]
                ELSE WhileHead(settled, i)
    IN DimContinuation(next, command.n, ok)

\* Commands that may still be enqueued within the bound.
Room == MaxCmds - Len(futures) - Cardinality(dimWaiters)

\* A variant of turn_endpoint_on / turn_endpoint_off with no hasCapability test.
ActionTurn_unguarded(ep, on) ==
    /\ Room >= 1
    /\ SetQueueState(queueCapabilityCommand(QueueState, OnOffCap(ep), on))
    /\ lastStep' = Step(IF on THEN "turn_endpoint_on" ELSE "turn_endpoint_off", ep, "")
    /\ events' = <<>>
    /\ entered' = <<>>
    /\ UNCHANGED <<debounceVars, endpointTypes, caps, capValue, store, topology,
                   tasks, faults, deleted, discovered, syncs>>

\* Flow action turn_endpoint_on / turn_endpoint_off.
ActionTurn(ep, on) ==
    /\ Room >= 1
    /\ IF OnOffCap(ep) \in caps
       THEN /\ SetQueueState(queueCapabilityCommand(QueueState, OnOffCap(ep), on))
            /\ lastStep' = Step(IF on THEN "turn_endpoint_on" ELSE "turn_endpoint_off", ep, "")
       ELSE /\ UNCHANGED queueVars
            /\ lastStep' = Step("action_error", ep, "onoff")
    /\ events' = <<>>
    /\ entered' = <<>>
    /\ UNCHANGED <<debounceVars, endpointTypes, caps, capValue, store, topology,
                   tasks, faults, deleted, discovered, syncs>>

\* Flow action toggle_endpoint.
ActionToggle(ep) ==
    /\ Room >= 1
    /\ IF OnOffCap(ep) \in caps
       THEN LET currentState == capValue[OnOffCap(ep)] = <<TRUE>>
            IN /\ SetQueueState(queueCapabilityCommand(QueueState, OnOffCap(ep),
                                                       ~currentState))
               /\ lastStep' = Step("toggle_endpoint", ep, "")
       ELSE /\ UNCHANGED queueVars
            /\ lastStep' = Step("action_error", ep, "onoff")
    /\ events' = <<>>
    /\ entered' = <<>>
    /\ UNCHANGED <<debounceVars, endpointTypes, caps, capValue, store, topology,
                   tasks, faults, deleted, discovered, syncs>>

\* Dim levels a flow may ask for, as numerators over Z_WAVE_MAX_DIM_VALUE.
Levels == {0, 50}

\* Flow action set_endpoint_dim, up to its first await.
ActionSetDim(ep, level) ==
    /\ Room >= 2
    /\ IF DimCap(ep) \in caps
       THEN LET s == queueCapabilityCommand(QueueState, DimCap(ep), level)
                n == Len(s.futures)
            IN /\ SetQueueState([s EXCEPT !.dimWaiters =
                                   @ \cup {[n |-> n, ep |-> ep, level |-> level]}])
               /\ lastStep' = Step("set_endpoint_dim", ep, "")
       ELSE /\ UNCHANGED queueVars
            /\ lastStep' = Step("action_error", ep, "dim")
    /\ events' = <<>>
    /\ entered' = <<>>
    /\ UNCHANGED <<debounceVars, endpointTypes, caps, capValue, store, topology,
                   tasks, faults, deleted, discovered, syncs>>

\* The capability listener of the command of loop i returns or throws.
CommandDone(i, ok) ==
    /\ i \in 1..Len(loops)
    /\ loops[i].pc = "apply"
    /\ SetQueueState(HandlerDone(QueueState, i, ok))
    /\ lastStep' = Step(IF ok THEN "command_ok" ELSE "command_failed", 0, "")
    /\ events' = <<>>
    /\ entered' = <<>>
    /\ UNCHANGED <<debounceVars, endpointTypes, caps, capValue, store, topology,
                   tasks, faults, deleted, discovered, syncs>>

\* The delay of loop i has elapsed: back to the head of its while loop.
DelayDone(i) ==
    /\ i \in 1..Len(loops)
    /\ loops[i].pc = "delay"
    /\ loops[i].left = 0
    /\ SetQueueState(WhileHead(QueueState, i))
    /\ lastStep' = Step("delay_done", 0, "")
    /\ events' = <<>>
    /\ entered' = <<>>
    /\ UNCHANGED <<debounceVars, endpointTypes, caps, capValue, store, topology,
                   tasks, faults, deleted, discovered, syncs>>

ReportClasses == {"multilevel", "binary"}

\* A timer or delay is due.
Due ==
    \/ \E i \in 1..Len(loops) : loops[i].pc = "delay" /\ loops[i].left = 0
    \/ \E t \in timers : t.left = 0

\* Time advances by TickMs.
Tick ==
    /\ ~Due
    /\ loops' = [i \in 1..Len(loops) |->
                   IF loops[i].pc = "delay"
                   THEN [loops[i] EXCEPT !.left = Max(0, @ - TickMs)]
                   ELSE loops[i]]
    /\ timers' = {[t EXCEPT !.left = Max(0, @ - TickMs)] : t \in timers}
    /\ sinceEnd' = Min(COMMAND_DELAY_MS, sinceEnd + TickMs)
    /\ sinceReport' = [c \in ReportClasses |->
                         Min(SYNC_DEBOUNCE_MS, sinceReport[c] + TickMs)]
    /\ lastStep' = Step("tick", 0, "")
    /\ events' = <<>>
    /\ entered' = <<>>
    /\ UNCHANGED <<commandQueue, isProcessingQueue, futures, dimWaiters, applied,
                   outcome, lastGap, listeners, syncTimeout, owed, endpointTypes,
                   caps, capValue, store, topology, tasks, faults, deleted, discovered, syncs,
                   healthCheckInterval, intervals>>

\* onDeleted().
OnDeleted ==
    /\ ~deleted
    /\ commandQueue' = <<>>
    /\ isProcessingQueue' = FALSE
    /\ listeners' = <<>>
    /\ timers' = {t \in timers : t.h # syncTimeout}
    /\ syncTimeout' = 0
    /\ intervals' = IF healthCheckInterval THEN intervals - 1 ELSE intervals
    /\ healthCheckInterval' = FALSE
    /\ deleted' = TRUE
    /\ owed' = [c \in ReportClasses |-> FALSE]
    /\ lastStep' = Step("onDeleted", 0, "")
    /\ events' = <<>>
    /\ entered' = <<>>
    /\ UNCHANGED <<loops, futures, dimWaiters, applied, outcome, sinceEnd, lastGap,
                   sinceReport, endpointTypes, caps, capValue, store, topology,
                   tasks, faults, discovered, syncs>>

\* --------------------------------------------------------------- topology

MULTILEVEL == "COMMAND_CLASS_SWITCH_MULTILEVEL"
BINARY == "COMMAND_CLASS_SWITCH_BINARY"

\* An endpoint descriptor of node.MultiChannelNodes: its generic device class,
\* the command classes in its CommandClass object, and those whose
\* SWITCH_*_GET is a function.  NoEndpoint stands for a missing entry.
NoEndpoint == [generic |-> "none", cc |-> {}, get |-> {}]
DimmerDesc == [generic |-> "GENERIC_TYPE_SWITCH_MULTILEVEL", cc |-> {MULTILEVEL},
               get |-> {MULTILEVEL}]
SwitchDesc == [generic |-> "GENERIC_TYPE_SWITCH_BINARY", cc |-> {BINARY},
               get |-> {BINARY}]
DimmerNoGet == [generic |-> "GENERIC_TYPE_SWITCH_MULTILEVEL", cc |-> {MULTILEVEL},
                get |-> {}]
SensorDesc == [generic |-> "GENERIC_TYPE_SENSOR_BINARY", cc |-> {BINARY},
               get |-> {BINARY}]

\* A variant of _detectEndpointType that looks at the command classes only.
_detectEndpointType_byCommandClass(endpoint) ==
    IF MULTILEVEL \in endpoint.cc THEN "dimmer"
    ELSE IF BINARY \in endpoint.cc THEN "switch"
    ELSE "null"

\* _detectEndpointType(endpoint, commandClass); "null" is the source's null.
_detectEndpointType(endpoint) ==
    LET isDimmer == endpoint.generic = "GENERIC_TYPE_SWITCH_MULTILEVEL"
                    /\ MULTILEVEL \in endpoint.cc
        isSwitch == endpoint.generic = "GENERIC_TYPE_SWITCH_BINARY"
                    /\ BINARY \in endpoint.cc
    IN IF isDimmer THEN "dimmer" ELSE IF isSwitch THEN "switch" ELSE "null"

\* The capabilities of an endpoint of the given type.
CapsOf(ep, type) ==
    IF type = "dimmer" THEN {OnOffCap(ep), DimCap(ep)}
    ELSE IF type = "switch" THEN {OnOffCap(ep)}
    ELSE {}

\* ------------------------------------------------------ state synchronizer

\* The registry, capabilities, values and trigger events as one value, so
\* that the calls of one macrotask compose.
SyncState ==
    [endpointTypes |-> endpointTypes, caps |-> caps, capValue |-> capValue,
     events |-> <<>>, entered |-> <<>>]

Event(type, ep, value) == [type |-> type, ep |-> ep, value |-> value]

\* A variant of _setOnOff without the oldValue === newValue return.
_setOnOff_ungated(st, cap, value, endpointNum) ==
    IF cap \notin st.caps THEN st
    ELSE [st EXCEPT !.capValue[cap] = <<value>>,
                    !.events =
                        @ \o <<Event(IF value THEN "endpoint_turned_on"
                                     ELSE "endpoint_turned_off", endpointNum, <<>>),
                               Event("endpoint_state_changed", endpointNum, <<value>>)>>]

\* A variant of _setDim that stores the value as given.
_setDim_unclamped(st, cap, dimValue, endpointNum) ==
    IF endpointNum < 1 THEN st
    ELSE IF cap \notin st.caps THEN st
    ELSE LET oldValue == st.capValue[cap]
             set == [st EXCEPT !.capValue[cap] = <<dimValue>>]
         IN IF oldValue = <<dimValue>> THEN set
            ELSE [set EXCEPT !.events =
                    @ \o <<Event("endpoint_dim_changed", endpointNum, <<dimValue>>)>>]

\* A variant of _setDim without the oldValue === normalizedValue return.
_setDim_ungated(st, cap, dimValue, endpointNum) ==
    LET normalizedValue == Max(0, Min(Z_WAVE_MAX_DIM_VALUE, dimValue))
    IN IF endpointNum < 1 THEN st
       ELSE IF cap \notin st.caps THEN st
       ELSE [st EXCEPT !.capValue[cap] = <<normalizedValue>>,
                       !.events = @ \o <<Event("endpoint_dim_changed", endpointNum,
                                               <<normalizedValue>>)>>]

\* A variant of _setOnOff that triggers endpoint_state_changed only.
_setOnOff_stateOnly(st, cap, value, endpointNum) ==
    IF cap \notin st.caps THEN st
    ELSE LET oldValue == st.capValue[cap]
             set == [st EXCEPT !.capValue[cap] = <<value>>]
         IN IF oldValue = <<value>> THEN set
            ELSE [set EXCEPT !.events =
                    @ \o <<Event("endpoint_state_changed", endpointNum, <<value>>)>>]

\* _setOnOff(cap, value, endpointNum)
_setOnOff(st, cap, value, endpointNum) ==
    IF cap \notin st.caps THEN st
    ELSE LET oldValue == st.capValue[cap]
             newValue == value
             set == [st EXCEPT !.capValue[cap] = <<newValue>>]
         IN IF oldValue = <<newValue>> THEN set
            ELSE [set EXCEPT !.events =
                    @ \o <<Event(IF newValue THEN "endpoint_turned_on"
                                 ELSE "endpoint_turned_off", endpointNum, <<>>),
                           Event("endpoint_state_changed", endpointNum, <<newValue>>)>>]

\* _setDim(cap, value01, endpointNum); a dim value is kept as its numerator
\* over Z_WAVE_MAX_DIM_VALUE, so value01 = dimValue / 99 is passed as dimValue.
_setDim(st, cap, dimValue, endpointNum) ==
    LET normalizedValue == Max(0, Min(Z_WAVE_MAX_DIM_VALUE, dimValue))
    IN IF endpointNum < 1 THEN st
       ELSE IF cap \notin st.caps THEN st
       ELSE LET oldValue == st.capValue[cap]
                set == [st EXCEPT !.capValue[cap] = <<normalizedValue>>]
            IN IF oldValue = <<normalizedValue>> THEN set
               ELSE [set EXCEPT !.events =
                       @ \o <<Event("endpoint_dim_changed", endpointNum,
                                    <<normalizedValue>>)>>]

\* A sync pass (_syncEndpointsByType) suspended at an await of
\* _syncOneEndpointState for endpoint ep: type is the pass's device type,
\* todo the endpoints of the pass still to come, deviceType the local of
\* _syncOneEndpointState, why the reason capabilities are being removed,
\* wr the registry handed to setStoreValue.  pass names the loop the task is
\* in: "byType" (_syncEndpointsByType), "discover" (_discoverAllEndpoints),
\* the phases of onNodeInit "init_discover", "init_sync", "init_sweep", and
\* "syncOne" (a single _syncOneEndpointState call, no loop) and "health" (the
\* rediscovery of _checkDeviceHealth).
Task(type, ep, todo) ==
    [type |-> type, ep |-> ep, todo |-> todo, pc |-> "entry",
     deviceType |-> "undefined", why |-> "", wr |-> [e \in Endpoints |-> "undefined"],
     pass |-> "byType"]

PassTask(pass) == [Task("", 0, <<>>) EXCEPT !.pass = pass]

\* A variant that lists the ids from the greatest down.
RECURSIVE Descending(_)
Descending(S) ==
    IF S = {} THEN <<>>
    ELSE LET greatest == CHOOSE e \in S : \A o \in S : e >= o
         IN <<greatest>> \o Descending(S \ {greatest})

\* The ids of a set of endpoints in key order (ascending).
RECURSIVE Ascending(_)
Ascending(S) ==
    IF S = {} THEN <<>>
    ELSE LET least == CHOOSE e \in S : \A o \in S : e <= o
         IN <<least>> \o Ascending(S \ {least})

\* The pass is abandoned by an error thrown out of it.
Thrown(st, t) == [st |-> st, t |-> [t EXCEPT !.pc = "done", !.why = "thrown"]]

\* The function a pass calls for each of its endpoints.
EntryOf(pass) ==
    CASE pass \in {"byType", "init_sync"} -> "entry"
      [] pass \in {"discover", "init_discover", "health"} -> "discover_entry"
      [] pass = "init_sweep" -> "sweep_entry"

Suspend(st, t, pc) == [st |-> st, t |-> [t EXCEPT !.pc = pc]]

\* A variant that only creates a null entry for an id it sees for the first
\* time and classifies it on a later run.
Commit_later(st, endpointNum, deviceType) ==
    [st EXCEPT !.endpointTypes[endpointNum] =
                   IF @ = "undefined" THEN "null" ELSE deviceType]

\* this._endpointTypes[endpointNum] = deviceType in _discoverOneEndpoint.
Commit(st, endpointNum, deviceType) ==
    [st EXCEPT !.endpointTypes[endpointNum] = deviceType]

\* The loop of a pass calls the per-endpoint function for t.ep.
Enter(st, t) == [st EXCEPT !.entered = Append(@, [pass |-> t.pass, ep |-> t.ep])]

\* A variant that demotes the endpoint on every failure, timeouts included.
Demotes_always(errorMsg) == TRUE

\* Messages of the errors a protocol GET rejects with.
ErrorMessages == {"timeout", "transmit failed"}

\* !errorMsg.includes('timeout') in the catch block of _syncOneEndpointState.
Demotes(errorMsg) == errorMsg \notin {"timeout"}

\* _syncOneEndpointState and the pass around it, from program point pt to the
\* next await of an I/O call (the task's pc names it) or to the end of the
\* pass (pc = "done").
RECURSIVE Run(_, _, _)
Run(st, t, pt) ==
    CASE pt = "entry" -> Run(Enter(st, t), t, "entry_body")
      [] pt = "discover_entry" -> Run(Enter(st, t), t, "discover_body")
      [] pt = "sweep_entry" -> Run(Enter(st, t), t, "sweep_body")
      \* _syncOneEndpointState
      [] pt = "entry_body" ->
           LET deviceType == st.endpointTypes[t.ep]
               t1 == [t EXCEPT !.deviceType = deviceType]
           IN IF topology[t.ep] = NoEndpoint
              THEN Run(st, [t1 EXCEPT !.why = "gone"], "remove_dim")
              ELSE IF deviceType \in {"null", "undefined"} THEN Run(st, t1, "return")
              ELSE IF deviceType = "dimmer" THEN Run(st, t1, "dimmer_ensure_onoff")
              ELSE Run(st, t1, "switch_remove_dim")
      \* _syncDimmerState
      [] pt = "dimmer_ensure_onoff" ->
           IF OnOffCap(t.ep) \notin st.caps THEN Suspend(st, t, "dimmer_add_onoff")
           ELSE Run(st, t, "dimmer_ensure_dim")
      [] pt = "dimmer_ensure_dim" ->
           IF DimCap(t.ep) \notin st.caps THEN Suspend(st, t, "dimmer_add_dim")
           ELSE Run(st, t, "dimmer_get")
      [] pt = "dimmer_get" ->
           IF MULTILEVEL \notin topology[t.ep].get THEN Run(st, t, "demote")
           ELSE Suspend(st, t, "get")
      \* _syncSwitchState
      [] pt = "switch_remove_dim" ->
           IF DimCap(t.ep) \in st.caps THEN Suspend(st, t, "switch_rm_dim")
           ELSE Run(st, t, "switch_ensure_onoff")
      [] pt = "switch_ensure_onoff" ->
           IF OnOffCap(t.ep) \notin st.caps THEN Suspend(st, t, "switch_add_onoff")
           ELSE Run(st, t, "switch_get")
      [] pt = "switch_get" ->
           IF BINARY \notin topology[t.ep].get THEN Run(st, t, "demote")
           ELSE Suspend(st, t, "get")
      \* the catch block of _syncOneEndpointState, for a non-timeout error
      [] pt = "demote" ->
           Run([st EXCEPT !.endpointTypes[t.ep] = "null"],
               [t EXCEPT !.why = "demote"], "remove_dim")
      \* _removeEndpointCapabilities
      [] pt = "remove_dim" ->
           IF DimCap(t.ep) \in st.caps THEN Suspend(st, t, "rm_dim")
           ELSE Run(st, t, "remove_onoff")
      [] pt = "remove_onoff" ->
           IF OnOffCap(t.ep) \in st.caps THEN Suspend(st, t, "rm_onoff")
           ELSE Run(st, t, "removed")
      [] pt = "removed" ->
           IF t.why = "demote"
           THEN Suspend(st, [t EXCEPT !.wr = st.endpointTypes], "store")
           ELSE Run(st, t, "return")
      \* the per-endpoint function returns: the next endpoint of the pass
      [] pt = "return" ->
           IF t.todo = <<>> THEN Run(st, t, "pass_end")
           ELSE Run(st, [t EXCEPT !.ep = Head(t.todo), !.todo = Tail(t.todo),
                                  !.why = ""], EntryOf(t.pass))
      \* the loop of the pass is over: onNodeInit goes on with its next call
      [] pt = "pass_end" ->
           (CASE t.pass \in {"byType", "discover", "syncOne"} -> Suspend(st, t, "done")
             [] t.pass = "init_discover" ->
                  \* _syncAllEndpointStates
                  LET discoveredIds ==
                          Ascending({e \in Endpoints : st.endpointTypes[e] # "undefined"})
                      t1 == [t EXCEPT !.pass = "init_sync", !.why = ""]
                  IN IF discoveredIds = <<>> THEN Run(st, t1, "pass_end")
                     ELSE Run(st, [t1 EXCEPT !.ep = Head(discoveredIds),
                                             !.todo = Tail(discoveredIds)], "entry")
             [] t.pass = "init_sync" ->
                  \* _cleanupOrphanedEndpoints, i = 1 .. maxManifestEndpoint
                  Run(st, [t EXCEPT !.pass = "init_sweep", !.why = "", !.ep = 1,
                                    !.todo = Tail(Ascending(Endpoints))], "sweep_entry")
             [] t.pass = "init_sweep" ->
                  \* setStoreValue at the end of onNodeInit
                  Suspend(st, [t EXCEPT !.wr = st.endpointTypes], "init_store")
             [] t.pass = "health" ->
                  \* setStoreValue after the rediscovery of _checkDeviceHealth
                  Suspend(st, [t EXCEPT !.wr = st.endpointTypes], "health_store"))
      \* _discoverAllEndpoints
      [] pt = "discover_all" ->
           LET endpointIds == Ascending({e \in Endpoints : topology[e] # NoEndpoint})
           IN IF endpointIds = <<>> THEN Run(st, t, "cleanup_all")
              ELSE Run(st, [t EXCEPT !.ep = Head(endpointIds),
                                     !.todo = Tail(endpointIds)], "discover_entry")
      \* _cleanupAllEndpoints
      [] pt = "cleanup_all" ->
           Suspend([st EXCEPT !.endpointTypes = [e \in Endpoints |-> "undefined"]],
                   [t EXCEPT !.wr = [e \in Endpoints |-> "undefined"], !.todo = <<>>],
                   "wipe_store")
      \* _discoverOneEndpoint
      [] pt = "discover_body" ->
           LET deviceType == _detectEndpointType(topology[t.ep])
               t1 == [t EXCEPT !.deviceType = deviceType]
           IN IF deviceType = "null"
              THEN Run([st EXCEPT !.endpointTypes[t.ep] = "null"],
                       [t1 EXCEPT !.why = "unsupported"], "remove_dim")
              ELSE IF st.endpointTypes[t.ep] \in {"dimmer", "switch"}
              THEN Run(st, [t1 EXCEPT !.why = "known"], "register")
              ELSE Run(st, [t1 EXCEPT !.why = "new"], "register")
      \* _registerEndpointCapabilities(endpointNum, deviceType)
      [] pt = "register" ->
           IF OnOffCap(t.ep) \notin st.caps THEN Suspend(st, t, "register_add_onoff")
           ELSE Run(st, t, "register_ensure_dim")
      [] pt = "register_ensure_dim" ->
           IF t.deviceType = "dimmer" /\ DimCap(t.ep) \notin st.caps
           THEN Suspend(st, t, "register_add_dim")
           ELSE Run(st, t, "register_delay")
      [] pt = "register_delay" -> Suspend(st, t, "register_delay")
      \* _discoverOneEndpoint after _registerEndpointCapabilities has returned
      [] pt = "registered" ->
           IF t.why = "known" THEN Run(st, t, "return")
           ELSE LET committed == Commit(st, t.ep, t.deviceType)
                IN Suspend(committed, [t EXCEPT !.wr = committed.endpointTypes],
                           "discover_store")
      \* the catch block of _discoverOneEndpoint for a timeout-class message
      [] pt = "register_timeout" ->
           IF t.why = "known" THEN Run(st, t, "return")
           ELSE LET committed == Commit(st, t.ep, t.deviceType)
                IN Suspend(committed, [t EXCEPT !.wr = committed.endpointTypes],
                           "discover_store_retry")
      \* _cleanupOrphanedEndpoints, one iteration
      [] pt = "sweep_body" ->
           IF /\ st.endpointTypes[t.ep] \in {"undefined", "null"}
              /\ (OnOffCap(t.ep) \in st.caps \/ DimCap(t.ep) \in st.caps)
           THEN Run(st, [t EXCEPT !.why = "sweep"], "remove_dim")
           ELSE Run(st, t, "return")

\* Object.keys(this._endpointTypes) filtered by type, in key order (ascending).
RECURSIVE KeysOfType(_, _, _)
KeysOfType(types, deviceType, from) ==
    IF from > MaxEndpoint THEN <<>>
    ELSE (IF types[from] = deviceType THEN <<from>> ELSE <<>>)
         \o KeysOfType(types, deviceType, from + 1)

\* _syncEndpointsByType(deviceType), from its call to its first await.
_syncEndpointsByType(st, deviceType) ==
    LET endpointsToSync == KeysOfType(st.endpointTypes, deviceType, 1)
    IN IF endpointsToSync = <<>>
       THEN Suspend(st, Task(deviceType, 0, <<>>), "done")
       ELSE Run(st, Task(deviceType, Head(endpointsToSync), Tail(endpointsToSync)),
                "entry")

\* The outcome r of a macrotask of the synchronizer: task i (i = Len(tasks) + 1
\* for a pass that just started) is suspended again or has ended.
SetSyncState(r, i) ==
    /\ endpointTypes' = r.st.endpointTypes
    /\ caps' = r.st.caps
    /\ capValue' = r.st.capValue
    /\ events' = r.st.events
    /\ entered' = r.st.entered
    /\ discovered' = IF r.t.pc = "done" /\ r.t.pass = "discover" /\ r.t.why # "thrown"
                     THEN Append(discovered, r.st.endpointTypes)
                     ELSE discovered
    /\ tasks' = IF r.t.pc = "done"
                THEN (IF i > Len(tasks) THEN tasks ELSE RemoveAt(tasks, i))
                ELSE (IF i > Len(tasks) THEN Append(tasks, r.t)
                      ELSE [tasks EXCEPT ![i] = r.t])

\* The capability a task's pending addCapability / removeCapability is for.
PendingCap(t) ==
    IF t.pc \in {"dimmer_add_onoff", "switch_add_onoff", "register_add_onoff", "rm_onoff"}
    THEN OnOffCap(t.ep) ELSE DimCap(t.ep)

\* addCapability of task i settles (_ensureCapability catches its failure).
AddDone(i, ok) ==
    /\ i \in 1..Len(tasks)
    /\ tasks[i].pc \in {"dimmer_add_onoff", "dimmer_add_dim", "switch_add_onoff",
                       "register_add_onoff", "register_add_dim"}
    /\ ok \/ faults < MaxFaults
    /\ faults' = IF ok THEN faults ELSE faults + 1
    /\ LET t == tasks[i]
           st == [SyncState EXCEPT !.caps = IF ok THEN @ \cup {PendingCap(t)} ELSE @]
           pt == CASE t.pc = "dimmer_add_onoff" -> "dimmer_ensure_dim"
                   [] t.pc = "dimmer_add_dim" -> "dimmer_get"
                   [] t.pc = "switch_add_onoff" -> "switch_get"
                   [] t.pc = "register_add_onoff" -> "register_ensure_dim"
                   [] t.pc = "register_add_dim" -> "register_delay"
       IN SetSyncState(Run(st, t, pt), i)
    /\ lastStep' = Step("add_done", tasks[i].ep, "")
    /\ UNCHANGED <<syncs, queueVars, debounceVars, store, topology, deleted>>

\* removeCapability of task i settles (_removeIfPresent catches its failure).
RemoveDone(i, ok) ==
    /\ i \in 1..Len(tasks)
    /\ tasks[i].pc \in {"switch_rm_dim", "rm_dim", "rm_onoff"}
    /\ ok \/ faults < MaxFaults
    /\ faults' = IF ok THEN faults ELSE faults + 1
    /\ LET t == tasks[i]
           st == IF ok THEN [SyncState EXCEPT !.caps = @ \ {PendingCap(t)},
                                              !.capValue[PendingCap(t)] = <<>>]
                 ELSE SyncState
           pt == CASE t.pc = "switch_rm_dim" -> "switch_ensure_onoff"
                   [] t.pc = "rm_dim" -> "remove_onoff"
                   [] t.pc = "rm_onoff" -> "removed"
       IN SetSyncState(Run(st, t, pt), i)
    /\ lastStep' = Step("remove_done", tasks[i].ep, "")
    /\ UNCHANGED <<syncs, queueVars, debounceVars, store, topology, deleted>>

\* What a protocol GET settles with: a report carrying the field (a dimmer's
\* 'Current Value', a switch's 'Value'), a report without it, or an error.
DimmerValues == {0, 50}
SwitchValues == {[t |-> "string", s |-> "on/enable", n |-> 0],
                 [t |-> "string", s |-> "off/disable", n |-> 0],
                 [t |-> "number", s |-> "", n |-> 1]}
GetResults(deviceType) ==
    {[kind |-> "report", value |-> v, msg |-> ""] :
        v \in IF deviceType = "dimmer"
              THEN {[t |-> "number", s |-> "", n |-> x] : x \in DimmerValues}
              ELSE SwitchValues}
    \cup {[kind |-> "invalid", value |-> [t |-> "undefined", s |-> "", n |-> 0],
           msg |-> ""]}
    \cup {[kind |-> "error", value |-> [t |-> "undefined", s |-> "", n |-> 0],
           msg |-> m] : m \in ErrorMessages}

\* report.Value === 'on/enable' || report.Value === 1
IsOn(value) ==
    \/ value.t = "string" /\ value.s = "on/enable"
    \/ value.t = "number" /\ value.n = 1

\* The protocol GET of task i has settled with r: a valid report is applied
\* (_syncDimmerState / _syncSwitchState after the await), any other outcome
\* goes to the catch block of _syncOneEndpointState.
GetSettled(i, r) ==
    /\ tasks[i].pc = "get"
    /\ LET t == tasks[i]
           ep == t.ep
           synced == IF t.deviceType = "dimmer"
                     THEN _setDim(_setOnOff(SyncState, OnOffCap(ep), r.value.n > 0, ep),
                                  DimCap(ep), r.value.n, ep)
                     ELSE _setOnOff(SyncState, OnOffCap(ep), IsOn(r.value), ep)
       IN /\ CASE r.kind = "report" -> SetSyncState(Run(synced, t, "return"), i)
               [] r.kind = "invalid" -> SetSyncState(Run(SyncState, t, "demote"), i)
               [] r.kind = "error" ->
                    IF Demotes(r.msg) THEN SetSyncState(Run(SyncState, t, "demote"), i)
                    ELSE SetSyncState(Run(SyncState, t, "return"), i)
          /\ syncs' = IF r.kind = "report" /\ t.pass = "syncOne"
                       THEN Append(syncs,
                                   [ep |-> ep,
                                    on |-> IF t.deviceType = "dimmer" THEN r.value.n > 0
                                           ELSE IsOn(r.value),
                                    dim |-> IF t.deviceType = "dimmer" THEN r.value.n
                                            ELSE 0,
                                    events |-> synced.events])
                       ELSE syncs
          /\ lastStep' = Step(IF r.kind = "report" THEN "sync_ok"
                              ELSE IF r.kind = "error" /\ r.msg = "timeout"
                              THEN "sync_timeout" ELSE "sync_failed", ep, "")
    /\ UNCHANGED <<queueVars, debounceVars, store, topology, faults, deleted>>

\* The protocol GET of task i settles with result r.
GetDone(i, r) ==
    /\ i \in 1..Len(tasks)
    /\ r \in GetResults(tasks[i].deviceType)
    /\ GetSettled(i, r)

\* 'Current Value' bytes a SWITCH_MULTILEVEL report may carry besides
\* DimmerValues: the ends of the range and values beyond it.
CurrentValues == {1, 98, 99, 100, 255}

\* SWITCH_MULTILEVEL_GET of task i settles with a report whose 'Current Value'
\* is v.
LevelDone(i, v) ==
    /\ i \in 1..Len(tasks)
    /\ tasks[i].deviceType = "dimmer"
    /\ GetSettled(i, [kind |-> "report", value |-> [t |-> "number", s |-> "", n |-> v],
                      msg |-> ""])

\* setStoreValue of task i settles: the registry handed over is persisted, or
\* the call rejects, which ends the pass (the timer callback catches it).
StoreDone(i, ok) ==
    /\ i \in 1..Len(tasks)
    /\ tasks[i].pc = "store"
    /\ ok \/ faults < MaxFaults
    /\ faults' = IF ok THEN faults ELSE faults + 1
    /\ store' = IF ok THEN tasks[i].wr ELSE store
    /\ IF ok THEN SetSyncState(Run(SyncState, tasks[i], "return"), i)
       ELSE SetSyncState(Suspend(SyncState, tasks[i], "done"), i)
    /\ lastStep' = Step(IF ok THEN "store_done" ELSE "store_failed", tasks[i].ep, "")
    /\ UNCHANGED <<syncs, queueVars, debounceVars, topology, deleted>>

\* _syncOneEndpointState(endpointNum, endpoints[endpointNum]) is called on its
\* own while nothing else is in flight.
SyncOne(endpointNum) ==
    /\ tasks = <<>>
    /\ Len(syncs) < MaxSyncs
    /\ endpointNum \in Endpoints
    /\ SetSyncState(Run(SyncState, [Task("", endpointNum, <<>>) EXCEPT !.pass = "syncOne"],
                        "entry"), 1)
    /\ lastStep' = Step("syncOne", endpointNum, "")
    /\ UNCHANGED <<syncs, queueVars, debounceVars, store, topology, faults, deleted>>

\* _syncEndpointsByType(deviceType) is called on its own, on an initialized
\* device, while nothing else is in flight.
SyncByType(deviceType) ==
    /\ tasks = <<>>
    /\ listeners # <<>>
    /\ ~deleted
    /\ SetSyncState(_syncEndpointsByType(SyncState, deviceType), 1)
    /\ lastStep' = Step("syncByType", 0, deviceType)
    /\ UNCHANGED <<syncs, queueVars, debounceVars, store, topology, faults, deleted>>

\* ------------------------------------------------------------ discovery

\* How the registerCapability calls after the delay of
\* _registerEndpointCapabilities end: without an error, or with an error whose
\* message is a timeout (swallowed there), contains 'capability get command
\* failed', or is any other.
RegisterResults == {"ok", "timeout", "capability get command failed", "failed"}

\* A variant in which every error message makes the catch block commit the type.
StillMarks_always(errorMsg) == TRUE

\* A variant in which no error message makes the catch block commit the type.
StillMarks_never(errorMsg) == FALSE

\* errorMsg.includes('timeout') || errorMsg.includes('capability get command
\* failed') in the catch block of _discoverOneEndpoint.
StillMarks(errorMsg) == errorMsg \in {"timeout", "capability get command failed"}

\* A variant of RegisterDone in which a registration error outside the timeout
\* class is thrown out of the loop of the pass.
RegisterDone_throws(i, r) ==
    /\ i \in 1..Len(tasks)
    /\ tasks[i].pc = "register_delay"
    /\ r \in RegisterResults
    /\ r = "ok" \/ faults < MaxFaults
    /\ faults' = IF r = "ok" THEN faults ELSE faults + 1
    /\ LET pt == IF r \in {"ok", "timeout"} THEN "registered"
                 ELSE IF StillMarks(r) THEN "register_timeout"
                 ELSE "return"
       IN SetSyncState(IF pt = "return" THEN Thrown(SyncState, tasks[i])
                       ELSE Run(SyncState, tasks[i], pt), i)
    /\ lastStep' = Step(IF r \in {"ok", "timeout"} THEN "register_ok"
                        ELSE "register_failed", tasks[i].ep, r)
    /\ UNCHANGED <<syncs, queueVars, debounceVars, store, topology, deleted>>

\* The delay of _registerEndpointCapabilities of task i is over and its
\* registerCapability calls end with r.
RegisterDone(i, r) ==
    /\ i \in 1..Len(tasks)
    /\ tasks[i].pc = "register_delay"
    /\ r \in RegisterResults
    /\ r = "ok" \/ faults < MaxFaults
    /\ faults' = IF r = "ok" THEN faults ELSE faults + 1
    /\ LET pt == IF r \in {"ok", "timeout"} THEN "registered"
                 ELSE IF StillMarks(r) THEN "register_timeout"
                 ELSE "return"
       IN SetSyncState(Run(SyncState, tasks[i], pt), i)
    /\ lastStep' = Step(IF r \in {"ok", "timeout"} THEN "register_ok"
                        ELSE "register_failed", tasks[i].ep, r)
    /\ UNCHANGED <<syncs, queueVars, debounceVars, store, topology, deleted>>

\* _startHealthCheck(): the interval of _healthCheckInterval, if set, is
\* cleared and a new one is started; the value is the number of running
\* intervals.
_startHealthCheck == (IF healthCheckInterval THEN intervals - 1 ELSE intervals) + 1

\* How a setStoreValue of discovery ends: persisted, or rejected with a
\* timeout message or another one.
StoreResults == {"ok", "timeout", "failed"}

\* A setStoreValue of _discoverOneEndpoint, _cleanupAllEndpoints or onNodeInit
\* of task i settles with r.
DiscoverStoreDone(i, r) ==
    /\ i \in 1..Len(tasks)
    /\ tasks[i].pc \in {"discover_store", "discover_store_retry", "wipe_store",
                       "init_store", "health_store"}
    /\ r \in StoreResults
    /\ r = "ok" \/ faults < MaxFaults
    /\ faults' = IF r = "ok" THEN faults ELSE faults + 1
    /\ store' = IF r = "ok" THEN tasks[i].wr ELSE store
    /\ LET t == tasks[i]
       IN SetSyncState(
            CASE t.pc = "discover_store" ->
                   IF r # "ok" /\ StillMarks(r) THEN Run(SyncState, t, "register_timeout")
                   ELSE Run(SyncState, t, "return")
              [] t.pc = "discover_store_retry" ->
                   IF r = "ok" THEN Run(SyncState, t, "return")
                   ELSE Thrown(SyncState, t)
              [] t.pc = "wipe_store" ->
                   IF r = "ok" THEN Suspend(SyncState, t, "wipe_caps")
                   ELSE Thrown(SyncState, t)
              [] t.pc = "init_store" ->
                   IF r = "ok" THEN Suspend(SyncState, t, "done")
                   ELSE Thrown(SyncState, t)
              [] t.pc = "health_store" ->
                   \* a rejection is caught and logged by _checkDeviceHealth
                   Suspend(SyncState, t, "done"), i)
    \* (for the last write of onNodeInit the step records the number of
    \* intervals _startHealthCheck cleared)
    /\ lastStep' = Step(IF r = "ok" THEN "store_done" ELSE "store_failed",
                        IF tasks[i].pc \in {"wipe_store", "health_store"} THEN 0
                        ELSE IF tasks[i].pc = "init_store"
                        THEN (IF r = "ok" /\ healthCheckInterval THEN 1 ELSE 0)
                        ELSE tasks[i].ep, tasks[i].pc)
    \* _startHealthCheck at the end of onNodeInit
    /\ LET started == tasks[i].pc = "init_store" /\ r = "ok"
       IN /\ intervals' = IF started THEN _startHealthCheck ELSE intervals
          /\ healthCheckInterval' = (started \/ healthCheckInterval)
    /\ UNCHANGED <<syncs, queueVars, listeners, syncTimeout, timers, sinceReport, owed,
                   topology, deleted>>

\* The removeCapability calls of _cleanupAllEndpoints of task i have all
\* settled (Promise.all); kept are the capabilities whose removal was rejected.
WipeDone(i, kept) ==
    /\ i \in 1..Len(tasks)
    /\ tasks[i].pc = "wipe_caps"
    /\ kept \subseteq caps
    /\ faults + Cardinality(kept) <= MaxFaults
    /\ faults' = faults + Cardinality(kept)
    /\ SetSyncState(Suspend([SyncState EXCEPT
                                !.caps = kept,
                                !.capValue = [c \in AllCaps |->
                                                IF c \in kept THEN capValue[c] ELSE <<>>]],
                            tasks[i], "wipe_settings"), i)
    /\ lastStep' = Step("wipe_done", 0, "")
    /\ UNCHANGED <<syncs, queueVars, debounceVars, store, topology, deleted>>

\* setSettings(_blankLabels()) of _cleanupAllEndpoints of task i settles.
SettingsDone(i, ok) ==
    /\ i \in 1..Len(tasks)
    /\ tasks[i].pc = "wipe_settings"
    /\ ok \/ faults < MaxFaults
    /\ faults' = IF ok THEN faults ELSE faults + 1
    /\ IF ok THEN SetSyncState(Run(SyncState, tasks[i], "pass_end"), i)
       ELSE SetSyncState(Thrown(SyncState, tasks[i]), i)
    /\ lastStep' = Step(IF ok THEN "settings_done" ELSE "settings_failed", 0, "")
    /\ UNCHANGED <<syncs, queueVars, debounceVars, store, topology, deleted>>

\* _discoverAllEndpoints(node) is called while nothing else is in flight.
Discover ==
    /\ tasks = <<>>
    /\ Len(discovered) < MaxRuns
    /\ SetSyncState(Run(SyncState, PassTask("discover"), "discover_all"), 1)
    /\ lastStep' = Step("discoverAll", 0, "")
    /\ UNCHANGED <<syncs, queueVars, debounceVars, store, topology, faults, deleted>>

\* A variant of _cleanupListeners that leaves the listeners registered.
_cleanupListeners_keep(registered) == registered

\* _cleanupListeners(): every registered listener is removed.
_cleanupListeners(registered) == <<>>

\* _registerRootDeviceListeners(node): one listener for each of the two
\* command classes of the root node.
_registerRootDeviceListeners(registered) == registered \o <<"multilevel", "binary">>

\* onNodeInit as task i: the registry is loaded from the store, the old root
\* listeners are removed and new ones registered, and discovery, full sync,
\* orphan sweep and the final setStoreValue follow.  (The labels it applies
\* are not part of the state.)
InitSequence(i, again) ==
    /\ ~deleted
    /\ listeners' = _registerRootDeviceListeners(_cleanupListeners(listeners))
    /\ SetSyncState(Run([SyncState EXCEPT !.endpointTypes = store],
                        PassTask("init_discover"), "discover_all"), i)
    /\ lastStep' = Step("onNodeInit", 0, again)
    /\ UNCHANGED <<syncs, queueVars, syncTimeout, timers, sinceReport, owed, store,
                   topology, faults, deleted, healthCheckInterval, intervals>>

\* onNodeInit on a device that has not been initialized.
NodeInit ==
    /\ tasks = <<>>
    /\ listeners = <<>>
    /\ InitSequence(1, "")

\* onNodeInit runs again on a device whose onNodeInit has run, while nothing
\* is in flight.
ReInit ==
    /\ tasks = <<>>
    /\ listeners # <<>>
    /\ InitSequence(1, "again")

\* The callback of the health-check interval, _checkDeviceHealth, while
\* nothing else is in flight: rediscovery when the registry has no key and an
\* endpoint capability exists; its errors are caught and logged.
CheckDeviceHealth ==
    /\ tasks = <<>>
    /\ intervals > 0
    /\ LET discoveredCount ==
               Cardinality({ep \in Endpoints : endpointTypes[ep] # "undefined"})
           capabilityCount == Cardinality(caps)
       IN IF discoveredCount = 0 /\ capabilityCount > 0
          THEN SetSyncState(Run(SyncState, PassTask("health"), "discover_all"), 1)
          ELSE SetSyncState(Suspend(SyncState, PassTask("health"), "done"), 1)
    /\ lastStep' = Step("healthCheck", 0, "")
    /\ UNCHANGED <<syncs, queueVars, debounceVars, store, topology, faults, deleted>>

\* ------------------------------------------------------ root-report debouncer

TypeOfClass(cls) == IF cls = "multilevel" THEN "dimmer" ELSE "switch"

\* Pending timers of a report class.
TimersOf(cls) == {t \in timers : t.cls = cls}

\* A timer handle not in use: setTimeout returns a new object each time.
NewHandle == CHOOSE h \in 1..(Cardinality(timers) + 2) :
                 h # syncTimeout /\ \A t \in timers : t.h # h

\* A variant of the listeners with no clearTimeout.
RootListener_keep(cls) ==
    timers \cup {[h |-> NewHandle, cls |-> cls, left |-> SYNC_DEBOUNCE_MS]}

\* multilevelListener / binaryListener: clear the timer of _syncTimeout and
\* start a new one; the value is the new set of pending timers.
RootListener(cls) ==
    {t \in timers : t.h # syncTimeout}
    \cup {[h |-> NewHandle, cls |-> cls, left |-> SYNC_DEBOUNCE_MS]}

\* A report without endpoint id arrives for a command class of the root node
\* (the step records the number of pending timers the listener cleared).
Report(cls) ==
    /\ \E k \in 1..Len(listeners) : listeners[k] = cls
    /\ ~Due
    /\ timers' = RootListener(cls)
    /\ syncTimeout' = NewHandle
    /\ sinceReport' = [sinceReport EXCEPT ![cls] = 0]
    /\ owed' = [owed EXCEPT ![cls] = TRUE]
    /\ lastStep' = Step("report", Cardinality(timers \ RootListener(cls)), cls)
    /\ events' = <<>>
    /\ entered' = <<>>
    /\ UNCHANGED <<listeners, queueVars, endpointTypes, caps, capValue, store,
                   topology, tasks, faults, deleted, discovered, syncs,
                   healthCheckInterval, intervals>>

\* The callback of a due debounce timer: _syncEndpointsByType of its class.
TimerFire(h) ==
    /\ Len(tasks) < MaxTasks
    /\ \E t \in timers :
         /\ t.h = h
         /\ t.left = 0
         /\ timers' = timers \ {t}
         /\ owed' = [owed EXCEPT ![t.cls] = FALSE]
         /\ SetSyncState(_syncEndpointsByType(SyncState, TypeOfClass(t.cls)),
                         Len(tasks) + 1)
         /\ lastStep' = Step("syncByType", 0, t.cls)
    /\ UNCHANGED <<syncs, listeners, syncTimeout, sinceReport, queueVars, store, topology,
                   faults, deleted, healthCheckInterval, intervals>>

\* ------------------------------------------------------------------- init

\* The device after onNodeInit has completed on the node topo: every endpoint
\* classified, the registry persisted, both root listeners registered, nothing
\* in flight.  lost are the capabilities whose addCapability was rejected
\* during initialization (_ensureCapability catches the rejection).
Ready(topo, lost) ==
    /\ topology = topo
    /\ endpointTypes = [ep \in Endpoints |->
                          IF topo[ep] = NoEndpoint THEN "undefined"
                          ELSE _detectEndpointType(topo[ep])]
    /\ caps = UNION {CapsOf(ep, endpointTypes[ep]) : ep \in Endpoints} \ lost
    /\ capValue = [c \in AllCaps |-> <<>>]
    /\ store = endpointTypes
    /\ listeners = <<"multilevel", "binary">>
    /\ healthCheckInterval = TRUE
    /\ intervals = 1
    /\ syncTimeout = 0
    /\ timers = {}
    /\ commandQueue = <<>>
    /\ isProcessingQueue = FALSE
    /\ loops = <<>>
    /\ tasks = <<>>
    /\ futures = <<>>
    /\ dimWaiters = {}
    /\ applied = <<>>
    /\ outcome = <<>>
    /\ sinceEnd = COMMAND_DELAY_MS
    /\ lastGap = COMMAND_DELAY_MS
    /\ sinceReport = [c \in ReportClasses |-> SYNC_DEBOUNCE_MS]
    /\ owed = [c \in ReportClasses |-> FALSE]
    /\ faults = 0
    /\ discovered = <<>>
    /\ syncs = <<>>
    /\ deleted = FALSE
    /\ events = <<>>
    /\ entered = <<>>
    /\ lastStep = Step("init", 0, "")

\* A node whose odd endpoints are dimmers and whose even endpoints are switches.
MixedNode == [ep \in Endpoints |-> IF ep % 2 = 1 THEN DimmerDesc ELSE SwitchDesc]

\* ------------------------------------------------ command queue specification

InitQueue == Ready(MixedNode, {})

NextQueue ==
    \/ \E ep \in Endpoints, on \in BOOLEAN : ActionTurn(ep, on)
    \/ \E ep \in Endpoints : ActionToggle(ep)
    \/ \E ep \in Endpoints, level \in Levels : ActionSetDim(ep, level)
    \/ \E i \in 1..MaxCmds, ok \in BOOLEAN : CommandDone(i, ok)
    \/ \E i \in 1..MaxCmds : DelayDone(i)
    \/ Tick
    \/ OnDeleted

SpecQueue == InitQueue /\ [][NextQueue]_vars

\* ------------------------------------------------------ command queue claims

\* Call numbers held by the queue, in queue order.
Queued == [k \in 1..Len(commandQueue) |-> commandQueue[k].n]

\* Call numbers whose capability listener is running.
Applying == {loops[i].command.n : i \in {j \in 1..Len(loops) : loops[j].pc = "apply"}}

\* C1: commands reach the capability listener in the order of their
\* queueCapabilityCommand calls, whatever the callers and the capabilities:
\* the listener invocations are in increasing call order, the queue holds
\* later calls than every invocation so far, in call order, and as long as
\* the device is not deleted no call is skipped (the k-th invocation is the
\* k-th call).
C1_GlobalFifo ==
    /\ \A i, j \in 1..Len(applied) : i < j => applied[i] < applied[j]
    /\ \A i, j \in 1..Len(Queued) : i < j => Queued[i] < Queued[j]
    /\ \A i \in 1..Len(applied), j \in 1..Len(Queued) : applied[i] < Queued[j]
    /\ ~deleted => /\ \A k \in 1..Len(applied) : applied[k] = k
                   /\ applied \o Queued = [k \in 1..Len(futures) |-> k]

\* Three commands were applied in a row by one loop; the third, for another
\* endpoint's capability, is being applied after the delay.
C1_Witness ==
    /\ ~deleted
    /\ Len(applied) >= 3
    /\ \E i \in 1..Len(loops) :
         /\ loops[i].pc = "apply"
         /\ loops[i].command.n = 3
         /\ loops[i].command.capabilityId = OnOffCap(2)
    /\ lastStep.op = "delay_done"

\* C2: at least COMMAND_DELAY_MS elapse between the end of a command's
\* application and the start of the next one.
C2_MinSpacing == lastGap >= COMMAND_DELAY_MS

\* C3: at most one drain loop is active and at most one command is being
\* applied.
C3_SingleDrainLoop == Len(loops) <= 1 /\ Cardinality(Applying) <= 1

\* C4: the promise of every queueCapabilityCommand call settles, once, with
\* the outcome of its capability listener: a pending promise belongs to a
\* command that is still queued or being applied, no promise is settled
\* twice, and a settled promise carries its handler's outcome.
C4_FutureSettles ==
    \A n \in 1..Len(futures) :
        /\ futures[n].calls <= 1
        /\ futures[n].status = "pending" =>
             (n \in Applying \/ \E k \in 1..Len(Queued) : Queued[k] = n)
        /\ futures[n].status = "resolved" => outcome[n] = "ok"
        /\ futures[n].status = "rejected" => outcome[n] = "fail"

\* Whenever commands wait in the queue, a drain loop is running that will
\* take them.
NoStall == commandQueue # <<>> => Len(loops) >= 1

\* Every settled promise carries the outcome of its own handler.
OwnOutcome ==
    \A n \in 1..Len(futures) :
        /\ futures[n].status = "resolved" <=> outcome[n] = "ok"
        /\ futures[n].status = "rejected" <=> outcome[n] = "fail"

\* C5: a failing capability listener rejects the promise of its own command
\* and no other; the loop that ran it goes on (it waits the delay when
\* commands are queued, and the queue is left as it was), commands that wait
\* always have a running loop to take them, and every promise is settled
\* with its own handler's outcome.
C5_FailureContained ==
    [][/\ lastStep'.op = "command_failed" =>
            \E n \in 1..Len(futures) :
                /\ futures[n].status = "pending"
                /\ futures'[n].status = "rejected"
                /\ Len(futures') = Len(futures)
                /\ \A m \in 1..Len(futures) : m # n => futures'[m] = futures[m]
                /\ commandQueue # <<>> =>
                     /\ commandQueue' = commandQueue
                     /\ Len(loops') = Len(loops)
                     /\ \E i \in 1..Len(loops) :
                          loops[i].pc = "apply" /\ loops[i].command.n = n
                          /\ loops'[i].pc = "delay"
       /\ NoStall'
       /\ OwnOutcome']_vars

\* A capability listener has just failed while another command was queued
\* behind it: its promise is rejected and its loop waits the delay.
C5_Witness ==
    /\ ~deleted
    /\ lastStep.op = "command_failed"
    /\ commandQueue # <<>>
    /\ \E n \in 1..Len(futures) : futures[n].status = "rejected"
    /\ \E i \in 1..Len(loops) : loops[i].pc = "delay"

\* ------------------------------------- debouncer and synchronizer specification

InitSync == \E lost \in {{}, {DimCap(1)}} : Ready(MixedNode, lost)

NextSync ==
    \/ \E cls \in ReportClasses : Report(cls)
    \/ \E h \in 1..3 : TimerFire(h)
    \/ \E i \in 1..MaxTasks, ok \in BOOLEAN : AddDone(i, ok)
    \/ \E i \in 1..MaxTasks, ok \in BOOLEAN : RemoveDone(i, ok)
    \/ \E i \in 1..MaxTasks, t \in {"dimmer", "switch"} :
         \E r \in GetResults(t) : GetDone(i, r)
    \/ \E i \in 1..MaxTasks, ok \in BOOLEAN : StoreDone(i, ok)
    \/ Tick
    \/ OnDeleted

SpecSync == InitSync /\ [][NextSync]_vars

\* The event loop runs due timer callbacks, every I/O call settles (a GET
\* that gets no answer settles with a timeout error), and time passes.
SyncSteps ==
    \/ \E h \in 1..3 : TimerFire(h)
    \/ \E i \in 1..MaxTasks, ok \in BOOLEAN : AddDone(i, ok)
    \/ \E i \in 1..MaxTasks, ok \in BOOLEAN : RemoveDone(i, ok)
    \/ \E i \in 1..MaxTasks, t \in {"dimmer", "switch"} :
         \E r \in GetResults(t) : GetDone(i, r)
    \/ \E i \in 1..MaxTasks, ok \in BOOLEAN : StoreDone(i, ok)

SpecSyncFair == SpecSync /\ WF_vars(Tick) /\ WF_vars(SyncSteps)

\* --------------------------------------------------------- debouncer claims

\* C6: the debounce timers of the two report classes are independent: a root
\* report of one class leaves the pending timer of the other class as it is.
C6_IndependentTimers ==
    [][\A cls \in ReportClasses :
         (lastStep'.op = "report" /\ lastStep'.cls # cls)
             => TimersOf(cls)' = TimersOf(cls)]_vars

\* C7: once a root report of a class has been followed by a full quiet window
\* without another report of that class, syncByType of the class is invoked
\* (owed is cleared by the invocation, and by the deletion of the device),
\* whatever reports of the other class arrive meanwhile.
C7_SyncEventuallyInvoked ==
    \A cls \in ReportClasses :
        (owed[cls] /\ sinceReport[cls] >= SYNC_DEBOUNCE_MS) ~> ~owed[cls]

\* C8: reports of one class that follow each other within the quiet window
\* cause one syncByType of that class, one quiet window after the last of
\* them: syncByType is invoked only for a class with a report not yet synced
\* and a full window since its last report, and as long as a class has such a
\* report its timer is pending and set to that instant.
C8_OneSyncPerBurst ==
    [][\A cls \in ReportClasses :
         /\ (lastStep'.op = "syncByType" /\ lastStep'.cls = cls)
                => (owed[cls] /\ ~owed'[cls] /\ sinceReport[cls] >= SYNC_DEBOUNCE_MS)
         /\ owed'[cls]
                => /\ Cardinality(TimersOf(cls)') = 1
                   /\ \A t \in TimersOf(cls)' :
                        t.left = SYNC_DEBOUNCE_MS - sinceReport'[cls]]_vars

\* ------------------------------------------------------- synchronizer claims

\* The endpoints a pass of task t still covers.
Covers(t) == {t.ep} \cup {t.todo[k] : k \in 1..Len(t.todo)}

\* The endpoints _syncEndpointsByType of a class will sync.
Matching(cls) ==
    {ep \in Endpoints : endpointTypes[ep] = TypeOfClass(cls)}

\* C9: a GET of syncOne that fails with a timeout leaves the endpoint's
\* registry type, its capabilities and the persisted registry unchanged, and
\* the next syncByType of its class syncs it again: the pass a trigger starts
\* covers every endpoint registered with the type of the class.
C9_TimeoutIsTransient ==
    [][/\ lastStep'.op = "sync_timeout"
            => /\ endpointTypes' = endpointTypes
               /\ caps' = caps
               /\ capValue' = capValue
               /\ store' = store
       /\ \A cls \in ReportClasses :
            (lastStep'.op = "syncByType" /\ lastStep'.cls = cls /\ Matching(cls) # {})
                => /\ Len(tasks') = Len(tasks) + 1
                   /\ Covers(tasks'[Len(tasks')]) = Matching(cls)]_vars

\* An endpoint synced before, then timed out, is still classified with its
\* capabilities and values, and its class can be triggered again.
C9_Witness ==
    /\ lastStep.op = "sync_timeout"
    /\ endpointTypes[lastStep.ep] \in {"dimmer", "switch"}
    /\ OnOffCap(lastStep.ep) \in caps
    /\ capValue[OnOffCap(lastStep.ep)] # <<>>
    /\ store = endpointTypes
    /\ ~deleted

\* C10: when syncOne returns after a failure other than a timeout, the
\* endpoint's registry type is null, neither of its capabilities is present,
\* and the persisted registry equals the one in memory.
C10_DemotedOnReturn ==
    [][lastStep'.op = "store_done"
          => /\ endpointTypes'[lastStep'.ep] = "null"
             /\ OnOffCap(lastStep'.ep) \notin caps'
             /\ DimCap(lastStep'.ep) \notin caps'
             /\ store' = endpointTypes']_vars

\* ------------------------------------------------- discovery specifications

RegistryTypes == {"undefined", "null", "dimmer", "switch"}

\* The device when the app starts on the node topo: reg is the registry the
\* last run persisted and the capabilities are those it had created.  With
\* loaded the registry is in memory and the root listeners are registered;
\* without, onNodeInit has yet to run.
Booted(topo, reg, loaded) ==
    /\ topology = topo
    /\ store = reg
    /\ endpointTypes = IF loaded THEN reg ELSE [ep \in Endpoints |-> "undefined"]
    /\ caps = UNION {CapsOf(ep, reg[ep]) : ep \in Endpoints}
    /\ capValue = [c \in AllCaps |-> <<>>]
    /\ listeners = IF loaded THEN <<"multilevel", "binary">> ELSE <<>>
    /\ healthCheckInterval = loaded
    /\ intervals = IF loaded THEN 1 ELSE 0
    /\ syncTimeout = 0
    /\ timers = {}
    /\ commandQueue = <<>>
    /\ isProcessingQueue = FALSE
    /\ loops = <<>>
    /\ tasks = <<>>
    /\ futures = <<>>
    /\ dimWaiters = {}
    /\ applied = <<>>
    /\ outcome = <<>>
    /\ sinceEnd = COMMAND_DELAY_MS
    /\ lastGap = COMMAND_DELAY_MS
    /\ sinceReport = [c \in ReportClasses |-> SYNC_DEBOUNCE_MS]
    /\ owed = [c \in ReportClasses |-> FALSE]
    /\ faults = 0
    /\ discovered = <<>>
    /\ syncs = <<>>
    /\ deleted = FALSE
    /\ events = <<>>
    /\ entered = <<>>
    /\ lastStep = Step("init", 0, "")

\* The descriptors a topology snapshot holds for an id.
Descriptors == {NoEndpoint, DimmerDesc, SwitchDesc, SensorDesc}

InitDiscovery ==
    \E topo \in [Endpoints -> Descriptors], reg \in [Endpoints -> RegistryTypes] :
        Booted(topo, reg, TRUE)

NextDiscovery ==
    \/ Discover
    \/ \E i \in 1..MaxTasks, ok \in BOOLEAN : AddDone(i, ok)
    \/ \E i \in 1..MaxTasks, ok \in BOOLEAN : RemoveDone(i, ok)
    \/ \E i \in 1..MaxTasks, r \in RegisterResults : RegisterDone(i, r)
    \/ \E i \in 1..MaxTasks, r \in StoreResults : DiscoverStoreDone(i, r)
    \/ \E i \in 1..MaxTasks, kept \in SUBSET AllCaps : WipeDone(i, kept)
    \/ \E i \in 1..MaxTasks, ok \in BOOLEAN : SettingsDone(i, ok)

SpecDiscovery == InitDiscovery /\ [][NextDiscovery]_vars

InitNode ==
    \E topo \in [Endpoints -> Descriptors], reg \in [Endpoints -> RegistryTypes] :
        Booted(topo, reg, FALSE)

NextNode ==
    \/ NodeInit
    \/ \E i \in 1..MaxTasks, ok \in BOOLEAN : AddDone(i, ok)
    \/ \E i \in 1..MaxTasks, ok \in BOOLEAN : RemoveDone(i, ok)
    \/ \E i \in 1..MaxTasks, t \in {"dimmer", "switch"} :
         \E r \in GetResults(t) : GetDone(i, r)
    \/ \E i \in 1..MaxTasks, ok \in BOOLEAN : StoreDone(i, ok)
    \/ \E i \in 1..MaxTasks, r \in RegisterResults : RegisterDone(i, r)
    \/ \E i \in 1..MaxTasks, r \in StoreResults : DiscoverStoreDone(i, r)
    \/ \E i \in 1..MaxTasks, kept \in SUBSET AllCaps : WipeDone(i, kept)
    \/ \E i \in 1..MaxTasks, ok \in BOOLEAN : SettingsDone(i, ok)

SpecNode == InitNode /\ [][NextNode]_vars

\* ------------------------------------------------ registry / control claims

\* The passes in flight that are demoting endpoint ep (between the assignment
\* of null and the return of _syncOneEndpointState).
Demoting(ep) ==
    {i \in 1..Len(tasks) : tasks[i].ep = ep /\ tasks[i].why = "demote"}

\* C11: once a non-timeout sync failure has demoted an endpoint (its
\* _syncOneEndpointState has returned) and until discovery reclassifies it,
\* neither its onoff nor its dim capability is present, whatever other sync
\* passes were in flight for it; stated here for the behaviours in which no
\* capability or store call was rejected.
C11_DemotedStaysBare ==
    \A ep \in Endpoints :
        (endpointTypes[ep] = "null" /\ Demoting(ep) = {} /\ faults = 0)
            => (OnOffCap(ep) \notin caps /\ DimCap(ep) \notin caps)

\* The endpoint capabilities the device has for endpoint ep.
Projected(ep) == caps \cap {OnOffCap(ep), DimCap(ep)}

\* C12: whenever no discovery or sync pass is in flight, every endpoint with a
\* non-null registry type has exactly the capabilities of its type: onoff
\* without dim for a switch, onoff and dim for a dimmer.
C12_ControlsMatchType ==
    tasks = <<>> =>
        \A ep \in Endpoints :
            endpointTypes[ep] \in {"dimmer", "switch"}
                => Projected(ep) = CapsOf(ep, endpointTypes[ep])

\* onNodeInit has run up to its last call, the setStoreValue after the orphan
\* sweep (no step follows it in a behaviour of SpecNode).
InitCompleted ==
    lastStep.op \in {"store_done", "store_failed"} /\ lastStep.cls = "init_store"

\* The ids with a classified registry type that a non-empty topology snapshot
\* omits.  No step of onNodeInit assigns the registry entry of an omitted id,
\* so these are the ids that were classified when the registry was loaded.
Vanished ==
    {ep \in Endpoints :
        /\ endpointTypes[ep] \in {"dimmer", "switch"}
        /\ topology[ep] = NoEndpoint
        /\ \E other \in Endpoints : topology[other] # NoEndpoint}

\* C13 as stated: after discovery, full sync and orphan sweep, an id that was
\* classified and that the non-empty snapshot omits has neither its onoff nor
\* its dim capability.
C13_VanishedUnprojected ==
    InitCompleted => \A ep \in Vanished : Projected(ep) = {}

\* C14: once the init sequence (discovery, full sync, orphan sweep) has
\* completed on a non-empty topology snapshot, an endpoint id the snapshot
\* omits has no Registry entry or a null one.  Discovery never classifies an
\* id without a descriptor, so a classified entry of such an id is the one
\* it had before the sequence.
Omitted ==
    {ep \in Endpoints :
        /\ topology[ep] = NoEndpoint
        /\ \E other \in Endpoints : topology[other] # NoEndpoint}

C14_OmittedForgotten ==
    InitCompleted => \A ep \in Omitted : endpointTypes[ep] \in {"undefined", "null"}


\* A run of _discoverAllEndpoints on an empty snapshot has ended: its
\* _cleanupAllEndpoints returned, or threw out of a rejected setStoreValue or
\* setSettings.
WipeEnded ==
    \/ lastStep.op \in {"settings_done", "settings_failed"}
    \/ lastStep.op = "store_failed" /\ lastStep.cls = "wipe_store"

\* C15: after discoverAll has run on an empty topology snapshot the registry
\* in memory is empty, the persisted registry is empty, and no onoff or dim
\* capability of an endpoint is left.
C15_EmptySnapshotWipes ==
    WipeEnded =>
        /\ \A ep \in Endpoints : endpointTypes[ep] = "undefined"
        /\ \A ep \in Endpoints : store[ep] = "undefined"
        /\ caps = {}


\* C16: no step of a discovery pass changes the registry type of an endpoint
\* that is classified dimmer or switch, whatever descriptor the snapshot
\* holds for its id.
C16_ClassifiedTypeKept ==
    [][\A ep \in Endpoints :
          (endpointTypes[ep] \in {"dimmer", "switch"} /\ topology[ep] # NoEndpoint)
              => endpointTypes'[ep] = endpointTypes[ep]]_vars


InitSyncOne == \E lost \in SUBSET {DimCap(1), OnOffCap(2)} : Ready(MixedNode, lost)

NextSyncOne ==
    \/ \E ep \in Endpoints : SyncOne(ep)
    \/ \E i \in 1..MaxTasks, ok \in BOOLEAN : AddDone(i, ok)
    \/ \E i \in 1..MaxTasks, ok \in BOOLEAN : RemoveDone(i, ok)
    \/ \E i \in 1..MaxTasks, t \in {"dimmer", "switch"} :
         \E r \in GetResults(t) : GetDone(i, r)
    \/ \E i \in 1..MaxTasks, ok \in BOOLEAN : StoreDone(i, ok)

SpecSyncOne == InitSyncOne /\ [][NextSyncOne]_vars

\* Two successive applications to the same endpoint whose reads derived the
\* same value.
SamePair == {k \in 2..Len(syncs) :
                /\ syncs[k].ep = syncs[k - 1].ep
                /\ syncs[k].on = syncs[k - 1].on
                /\ syncs[k].dim = syncs[k - 1].dim}

OnOffEvents == {"endpoint_turned_on", "endpoint_turned_off", "endpoint_state_changed"}

\* C19: a step that applies a reading (a _syncOneEndpointState whose GET
\* returned a valid report) fires no transition event for a capability whose
\* stored value the step leaves as it was, i.e. whose newly derived value
\* equals the stored one; this holds for every such step of a behaviour.
C19_NoEventWithoutChange ==
    [][lastStep'.op = "sync_ok" =>
          LET ep == lastStep'.ep
          IN /\ (OnOffCap(ep) \in caps /\ capValue'[OnOffCap(ep)] = capValue[OnOffCap(ep)])
                    => \A k \in 1..Len(events') :
                           ~(events'[k].ep = ep /\ events'[k].type \in OnOffEvents)
             /\ (DimCap(ep) \in caps /\ capValue'[DimCap(ep)] = capValue[DimCap(ep)])
                    => \A k \in 1..Len(events') :
                           ~(events'[k].ep = ep /\ events'[k].type = "endpoint_dim_changed")]_vars

\* A dimmer read three times at the same level: the third application, like
\* the second, has just fired nothing.
C19_Witness ==
    /\ lastStep.op = "sync_ok"
    /\ Len(syncs) = 3
    /\ 2 \in SamePair /\ 3 \in SamePair
    /\ syncs[3].dim > 0
    /\ capValue[DimCap(syncs[3].ep)] = <<syncs[3].dim>>
    /\ events = <<>>


\* ------------------------------------------------ classification specification

\* Every descriptor over three generic device classes and the two command
\* classes: the matching ones, the crossed ones (a multilevel generic class
\* exposing only the binary command class, and vice versa), those exposing
\* both or neither.
GenericClasses ==
    {"GENERIC_TYPE_SWITCH_MULTILEVEL", "GENERIC_TYPE_SWITCH_BINARY",
     "GENERIC_TYPE_SENSOR_BINARY"}

AllDescriptors ==
    {[generic |-> g, cc |-> c, get |-> c] :
        g \in GenericClasses, c \in SUBSET {MULTILEVEL, BINARY}}

\* Discovery on a node of any descriptors, of a device whose registry is
\* empty or holds a dimmer for every endpoint.
InitClassify ==
    \E topo \in [Endpoints -> AllDescriptors \cup {NoEndpoint}],
       type \in {"undefined", "dimmer"} :
        Booted(topo, [ep \in Endpoints |-> type], TRUE)

NextClassify ==
    \/ Discover
    \/ \E i \in 1..MaxTasks, ok \in BOOLEAN : AddDone(i, ok)
    \/ \E i \in 1..MaxTasks, ok \in BOOLEAN : RemoveDone(i, ok)
    \/ \E i \in 1..MaxTasks, r \in RegisterResults : RegisterDone(i, r)
    \/ \E i \in 1..MaxTasks, r \in StoreResults : DiscoverStoreDone(i, r)
    \/ \E i \in 1..MaxTasks, kept \in SUBSET AllCaps : WipeDone(i, kept)
    \/ \E i \in 1..MaxTasks, ok \in BOOLEAN : SettingsDone(i, ok)

SpecClassify == InitClassify /\ [][NextClassify]_vars

\* The classification of a descriptor as the specification words it.
Classified(endpoint, type) ==
    /\ type = "dimmer" <=> (/\ endpoint.generic = "GENERIC_TYPE_SWITCH_MULTILEVEL"
                            /\ MULTILEVEL \in endpoint.cc)
    /\ type = "switch" <=> (/\ endpoint.generic = "GENERIC_TYPE_SWITCH_BINARY"
                            /\ BINARY \in endpoint.cc)
    /\ type = "null" <=> ~(\/ /\ endpoint.generic = "GENERIC_TYPE_SWITCH_MULTILEVEL"
                              /\ MULTILEVEL \in endpoint.cc
                           \/ /\ endpoint.generic = "GENERIC_TYPE_SWITCH_BINARY"
                              /\ BINARY \in endpoint.cc)

\* C20: the type discovery detects for the endpoint it is working on is
\* dimmer iff the generic class is multilevel switch and the multilevel
\* command class is exposed, switch iff the generic class is binary switch
\* and the binary command class is exposed, and null otherwise; an endpoint
\* classified null is null in the registry a completed run leaves.
C20_Classification ==
    /\ \A i \in 1..Len(tasks) :
           tasks[i].pass = "discover" /\ tasks[i].ep \in Endpoints
               => Classified(topology[tasks[i].ep], tasks[i].deviceType)
    /\ \A k \in 1..Len(discovered), ep \in Endpoints :
           (topology[ep] # NoEndpoint /\ Classified(topology[ep], "null"))
               => discovered[k][ep] = "null"

\* Discovery is removing the capabilities of a known dimmer whose descriptor
\* has the multilevel generic class but exposes only the binary command class.
C20_Witness ==
    \E i \in 1..Len(tasks) :
        /\ tasks[i].pass = "discover"
        /\ tasks[i].pc = "rm_dim"
        /\ tasks[i].deviceType = "null"
        /\ topology[tasks[i].ep].generic = "GENERIC_TYPE_SWITCH_MULTILEVEL"
        /\ topology[tasks[i].ep].cc = {BINARY}


\* The messages of the timeout class of discovery.
TimeoutClass == {"timeout", "capability get command failed"}

\* C21: when the registration of a newly classified endpoint ends with an
\* error of the timeout class, the detected type is in the registry at once;
\* the setStoreValue that follows is handed a registry holding it, and the
\* store holds it once that write has succeeded.
C21_TimeoutStillCommits ==
    /\ [][(lastStep'.op \in {"register_ok", "register_failed"}
             /\ lastStep'.cls \in TimeoutClass
             /\ \E i \in 1..Len(tasks) :
                    /\ tasks[i].pc = "register_delay"
                    /\ tasks[i].ep = lastStep'.ep
                    /\ tasks[i].why = "new")
            => /\ endpointTypes'[lastStep'.ep] = _detectEndpointType(topology[lastStep'.ep])
               /\ endpointTypes'[lastStep'.ep] \in {"dimmer", "switch"}
               /\ \E i \in 1..Len(tasks') :
                      /\ tasks'[i].pc \in {"discover_store", "discover_store_retry"}
                      /\ tasks'[i].wr = endpointTypes']_vars
    /\ [](\A i \in 1..Len(tasks) :
              tasks[i].pc \in {"discover_store", "discover_store_retry"}
                  => /\ endpointTypes[tasks[i].ep] = tasks[i].deviceType
                     /\ tasks[i].wr[tasks[i].ep] = tasks[i].deviceType)
    /\ []((lastStep.op = "store_done"
             /\ lastStep.cls \in {"discover_store", "discover_store_retry"})
            => /\ store[lastStep.ep] = endpointTypes[lastStep.ep]
               /\ store[lastStep.ep] \in {"dimmer", "switch"})

\* The registration of a new endpoint failed with 'capability get command
\* failed', its type was committed, and the write that followed has stored it.
C21_Witness ==
    /\ lastStep.op = "store_done"
    /\ lastStep.cls = "discover_store_retry"
    /\ faults = 1
    /\ store[lastStep.ep] \in {"dimmer", "switch"}
    /\ store[lastStep.ep] = endpointTypes[lastStep.ep]


RegisterPcs == {"register_add_onoff", "register_add_dim", "register_delay"}

Unclassified(types, ep) == types[ep] \notin {"dimmer", "switch"}

EnteredOf(pass) ==
    LET mine == SelectSeq(entered', LAMBDA e : e.pass = pass)
    IN [k \in 1..Len(mine) |-> mine[k].ep]

\* The pass of the one task in flight goes on over the step: the loop enters
\* the endpoints still to come in their order, as far as the next await, and
\* all of them when the pass is over after the step.
Continues ==
    LET t == tasks[1]
        mine == EnteredOf(t.pass)
    IN /\ Len(mine) <= Len(t.todo)
       /\ mine = SubSeq(t.todo, 1, Len(mine))
       /\ IF tasks' # <<>> /\ tasks'[1].pass = t.pass
          THEN /\ tasks'[1].ep = IF mine = <<>> THEN t.ep ELSE mine[Len(mine)]
               /\ tasks'[1].todo = SubSeq(t.todo, Len(mine) + 1, Len(t.todo))
          ELSE mine = t.todo

\* The step is a rejected setStoreValue or setSettings.
StorageFailure == lastStep'.op \in {"store_failed", "settings_failed"}

\* C23: in the discovery pass and the full sync of onNodeInit (and its
\* orphan sweep), no step other than a rejected persistence write keeps the
\* remaining endpoints of the pass from being processed: after a missing
\* descriptor, a GET timeout, an invalid report or GET error, a rejected
\* addCapability or removeCapability or a failed registration, the loop goes
\* on with the next endpoint.
C23_FailureContained ==
    [][(tasks # <<>> /\ ~StorageFailure) => Continues]_vars

\* The registration of endpoint 1 failed in the discovery of onNodeInit and
\* the loop has gone on to endpoint 2.
C23_Witness ==
    /\ lastStep.op = "register_failed"
    /\ lastStep.cls = "failed"
    /\ lastStep.ep = 1
    /\ tasks # <<>>
    /\ tasks[1].pass = "init_discover"
    /\ tasks[1].ep = 2
    /\ entered = <<[pass |-> "init_discover", ep |-> 2]>>


\* C24: a rejected persistence write during the discovery, full sync or
\* orphan sweep of onNodeInit does not keep the remaining endpoints of the
\* pass from being processed and leaves the registry entry of the endpoint
\* being processed as it was set.
C24_StorageFailureContained ==
    [][(tasks # <<>> /\ StorageFailure)
           => /\ Continues
              /\ tasks[1].ep \in Endpoints
                     => endpointTypes'[tasks[1].ep] = endpointTypes[tasks[1].ep]]_vars

\* onNodeInit has ended in its catch block, which rethrows: the last step was
\* a rejected write that nothing inside the sequence caught.
InitRejected ==
    /\ tasks = <<>>
    /\ lastStep.op \in {"store_failed", "settings_failed"}
    /\ lastStep.cls # "discover_store"

\* C25, for a device whose node handle is present: no failure during
\* discovery, sync, orphan sweep or persistence makes onNodeInit reject.
C25_InitNeverRejects == ~InitRejected


\* ------------------------------------------------- health check specification

\* An initialized device on the node topo with the registry reg, in memory
\* and in the store, and the capabilities projected; nothing is in flight.
Started(topo, reg, projected) ==
    /\ topology = topo
    /\ endpointTypes = reg
    /\ store = reg
    /\ caps = projected
    /\ capValue = [c \in AllCaps |-> <<>>]
    /\ listeners = <<"multilevel", "binary">>
    /\ healthCheckInterval = TRUE
    /\ intervals = 1
    /\ syncTimeout = 0
    /\ timers = {}
    /\ commandQueue = <<>>
    /\ isProcessingQueue = FALSE
    /\ loops = <<>>
    /\ tasks = <<>>
    /\ futures = <<>>
    /\ dimWaiters = {}
    /\ applied = <<>>
    /\ outcome = <<>>
    /\ sinceEnd = COMMAND_DELAY_MS
    /\ lastGap = COMMAND_DELAY_MS
    /\ sinceReport = [c \in ReportClasses |-> SYNC_DEBOUNCE_MS]
    /\ owed = [c \in ReportClasses |-> FALSE]
    /\ faults = 0
    /\ discovered = <<>>
    /\ syncs = <<>>
    /\ deleted = FALSE
    /\ events = <<>>
    /\ entered = <<>>
    /\ lastStep = Step("init", 0, "")

\* An initialized device whose capabilities are those of the registry had;
\* with lost, the registry has since been lost (it has no key, in memory and
\* in the store), which is the state _checkDeviceHealth looks for.
Running(topo, had, lost) ==
    Started(topo, IF lost THEN [ep \in Endpoints |-> "undefined"] ELSE had,
            UNION {CapsOf(ep, had[ep]) : ep \in Endpoints})

InitHealth ==
    \E topo \in [Endpoints -> Descriptors], had \in [Endpoints -> RegistryTypes],
       lost \in BOOLEAN :
        Running(topo, had, lost)

NextHealth ==
    \/ CheckDeviceHealth
    \/ \E i \in 1..MaxTasks, ok \in BOOLEAN : AddDone(i, ok)
    \/ \E i \in 1..MaxTasks, ok \in BOOLEAN : RemoveDone(i, ok)
    \/ \E i \in 1..MaxTasks, r \in RegisterResults : RegisterDone(i, r)
    \/ \E i \in 1..MaxTasks, r \in StoreResults : DiscoverStoreDone(i, r)
    \/ \E i \in 1..MaxTasks, kept \in SUBSET AllCaps : WipeDone(i, kept)
    \/ \E i \in 1..MaxTasks, ok \in BOOLEAN : SettingsDone(i, ok)

SpecHealth == InitHealth /\ [][NextHealth]_vars

\* A control is projected while no registry entry has a classified type.
Signature ==
    /\ caps # {}
    /\ \A ep \in Endpoints : endpointTypes[ep] \notin {"dimmer", "switch"}

\* C26: a health check starts the rediscovery (which ends with a
\* setStoreValue of the registry) exactly when a control is projected while no
\* registry entry has a classified type; otherwise it changes neither the
\* registry, the capabilities nor the store.
C26_HealthCheckSignature ==
    [][lastStep'.op = "healthCheck" =>
          /\ Signature <=> (tasks' # <<>> /\ tasks'[1].pass = "health")
          /\ ~Signature => /\ endpointTypes' = endpointTypes
                           /\ caps' = caps
                           /\ store' = store
                           /\ tasks' = <<>>]_vars


\* C27: discovery, sync and health-check passes never overlap: at most one
\* pass is between its start and its end at any time, so at most one endpoint
\* operation (a GET, a capability change, a store write) is in flight.
C27_NoOverlap == Len(tasks) <= 1


\* ------------------------------------------------- action card specification

\* A node with endpoint 1 only: no capability of another endpoint is projected.
SingleNode == [ep \in Endpoints |-> IF ep = 1 THEN DimmerDesc ELSE NoEndpoint]

InitActions == \E topo \in {MixedNode, SingleNode} : Ready(topo, {})

SpecActions == InitActions /\ [][NextQueue]_vars

OnOffActions == {"turn_endpoint_on", "turn_endpoint_off", "toggle_endpoint"}

\* The capability an action error names.
Missing(step) == IF step.cls = "onoff" THEN OnOffCap(step.ep) ELSE DimCap(step.ep)

\* C28: a turn on, turn off or toggle action runs only on an endpoint whose
\* onoff capability is projected and a set dim action only on one whose dim
\* capability is projected; otherwise the action fails with an error naming
\* the endpoint and the missing capability, and the command queue, the running
\* loops and the promises are left as they were.
C28_MissingCapabilityFails ==
    [][/\ lastStep'.op \in OnOffActions => OnOffCap(lastStep'.ep) \in caps
       /\ lastStep'.op = "set_endpoint_dim" => DimCap(lastStep'.ep) \in caps
       /\ lastStep'.op = "action_error" =>
              /\ lastStep'.cls \in {"onoff", "dim"}
              /\ Missing(lastStep') \notin caps
              /\ UNCHANGED queueVars]_vars

\* An onoff action has failed on an endpoint with no onoff capability while
\* earlier commands are queued.
C28_Witness ==
    /\ lastStep.op = "action_error"
    /\ lastStep.cls = "onoff"
    /\ OnOffCap(lastStep.ep) \notin caps
    /\ Len(commandQueue) > 0


\* --------------------------------------------------------- pass specification

\* onNodeInit (discoverAll, syncAll, orphan sweep), then syncByType passes one
\* at a time.
NextPasses ==
    \/ NodeInit
    \/ \E deviceType \in {"dimmer", "switch"} : SyncByType(deviceType)
    \/ \E i \in 1..MaxTasks, ok \in BOOLEAN : AddDone(i, ok)
    \/ \E i \in 1..MaxTasks, ok \in BOOLEAN : RemoveDone(i, ok)
    \/ \E i \in 1..MaxTasks, t \in {"dimmer", "switch"} :
         \E r \in GetResults(t) : GetDone(i, r)
    \/ \E i \in 1..MaxTasks, ok \in BOOLEAN : StoreDone(i, ok)
    \/ \E i \in 1..MaxTasks, r \in RegisterResults : RegisterDone(i, r)
    \/ \E i \in 1..MaxTasks, r \in StoreResults : DiscoverStoreDone(i, r)
    \/ \E i \in 1..MaxTasks, kept \in SUBSET AllCaps : WipeDone(i, kept)
    \/ \E i \in 1..MaxTasks, ok \in BOOLEAN : SettingsDone(i, ok)

SpecPasses == InitNode /\ [][NextPasses]_vars

StrictlyAscending(seq) == \A k \in 1..(Len(seq) - 1) : seq[k] < seq[k + 1]

Passes == {"init_discover", "init_sync", "init_sweep", "byType"}

\* C29: the loop of a pass enters its endpoints in ascending id order, and it
\* enters the next endpoint only in the step in which the awaited operation of
\* the endpoint before has settled: after every step at most one operation is
\* in flight, and it belongs to the endpoint the pass entered last.
C29_AscendingSequential ==
    [][/\ Len(tasks') <= 1
       /\ \A p \in Passes : StrictlyAscending(EnteredOf(p))
       /\ tasks # <<>> =>
              \A k \in 1..Len(EnteredOf(tasks[1].pass)) :
                  EnteredOf(tasks[1].pass)[k] > tasks[1].ep
       /\ (tasks' # <<>> /\ entered' # <<>>) =>
              /\ tasks'[1].ep = entered'[Len(entered')].ep
              /\ tasks'[1].pass = entered'[Len(entered')].pass]_vars

\* A syncByType pass has entered endpoint 2 in the step in which the GET of
\* endpoint 1 settled.
C29_Witness ==
    /\ entered = <<[pass |-> "byType", ep |-> 2]>>
    /\ lastStep.ep = 1
    /\ lastStep.op # "syncByType"
    /\ tasks # <<>>
    /\ tasks[1].pc = "get"


\* ------------------------------------------------------ ensure specification

\* discoverAll runs on a device some of whose capabilities (missing) have
\* been removed or were never added (_ensureCapability catches the rejection
\* of addCapability).
InitEnsure ==
    \E topo \in [Endpoints -> Descriptors], reg \in [Endpoints -> RegistryTypes],
       missing \in SUBSET AllCaps :
        Started(topo, reg, UNION {CapsOf(ep, reg[ep]) : ep \in Endpoints} \ missing)

SpecEnsure == InitEnsure /\ [][NextDiscovery]_vars

\* C30: after a discoverAll that has completed, every endpoint that was
\* classified before it (the pass before left it classified) and is in the
\* topology snapshot has the capabilities of its registry type.
C30_KnownControlsEnsured ==
    (tasks = <<>> /\ Len(discovered) >= 2) =>
        \A ep \in Endpoints :
            (discovered[1][ep] \in {"dimmer", "switch"} /\ topology[ep] # NoEndpoint)
                => CapsOf(ep, endpointTypes[ep]) \subseteq caps


\* -------------------------------------- single-endpoint sync on any registry

\* _syncOneEndpointState called one call at a time on a device whose registry,
\* topology snapshot and capabilities are any.
SpecSyncAny == InitEnsure /\ [][NextSyncOne]_vars

\* The step is a call of syncOne, or goes on with one, for an endpoint with no
\* descriptor (gone) or with a descriptor and no classified type (idle).
GoneCall ==
    \/ /\ lastStep'.op = "syncOne"
       /\ topology[lastStep'.ep] = NoEndpoint
    \/ /\ tasks # <<>>
       /\ tasks[1].pass = "syncOne"
       /\ tasks[1].why = "gone"

IdleCall ==
    /\ lastStep'.op = "syncOne"
    /\ topology[lastStep'.ep] # NoEndpoint
    /\ endpointTypes[lastStep'.ep] \in {"undefined", "null"}

\* C31: a syncOne call for an endpoint with no descriptor or with no
\* classified type sends no GET, fires no event and leaves the registry (and
\* the store) as it was; with no descriptor both capabilities of the id are
\* gone when the call returns; with a descriptor the capabilities and their
\* values are left as they were and the call returns at once.
C31_SyncOneNoOp ==
    [][/\ GoneCall =>
              /\ endpointTypes' = endpointTypes
              /\ store' = store
              /\ events' = <<>>
              /\ capValue' = [c \in AllCaps |-> IF c \in caps' THEN capValue[c] ELSE <<>>]
              /\ caps' \subseteq caps
              /\ IF tasks' = <<>>
                 THEN /\ OnOffCap(lastStep'.ep) \notin caps'
                      /\ DimCap(lastStep'.ep) \notin caps'
                 ELSE /\ tasks'[1].pc \in {"rm_dim", "rm_onoff"}
                      /\ tasks'[1].ep = lastStep'.ep
       /\ IdleCall =>
              /\ endpointTypes' = endpointTypes
              /\ store' = store
              /\ events' = <<>>
              /\ caps' = caps
              /\ capValue' = capValue
              /\ tasks' = <<>>]_vars


\* ------------------------------------------------- dim level specification

\* _syncOneEndpointState called one call at a time, the dimmer reporting any
\* of CurrentValues.
NextLevels ==
    \/ \E ep \in Endpoints : SyncOne(ep)
    \/ \E i \in 1..MaxTasks, ok \in BOOLEAN : AddDone(i, ok)
    \/ \E i \in 1..MaxTasks, ok \in BOOLEAN : RemoveDone(i, ok)
    \/ \E i \in 1..MaxTasks, t \in {"dimmer", "switch"} :
         \E r \in GetResults(t) : GetDone(i, r)
    \/ \E i \in 1..MaxTasks, v \in CurrentValues : LevelDone(i, v)
    \/ \E i \in 1..MaxTasks, ok \in BOOLEAN : StoreDone(i, ok)

SpecLevels == InitSyncOne /\ [][NextLevels]_vars

\* v / 99 clamped into [0, 1], as a numerator over 99.
Clamped(v) == IF v < 0 THEN 0 ELSE IF v > 99 THEN 99 ELSE v

\* What the capabilities of endpoint ep hold in state st after a dimmer report
\* with current value v.
Holds(st, ep, v) ==
    /\ OnOffCap(ep) \in st.caps => st.capValue[OnOffCap(ep)] = <<v > 0>>
    /\ DimCap(ep) \in st.caps =>
          /\ st.capValue[DimCap(ep)] = <<Clamped(v)>>
          /\ v \in 0..99 => st.capValue[DimCap(ep)] = <<v>>
    /\ ({OnOffCap(ep), DimCap(ep)} \subseteq st.caps /\ v \in 0..99) =>
          (st.capValue[DimCap(ep)] = <<0>> <=> st.capValue[OnOffCap(ep)] = <<FALSE>>)

Registry == IF listeners = <<>> THEN store ELSE endpointTypes

Classes == {"dimmer", "switch"}

\* The endpoints the step works on: the one the task in flight was suspended
\* at and those its loops enter; during is the set of passes concerned.
WorkedOn(during) ==
    {tasks[k].ep : k \in {k \in 1..Len(tasks) : tasks[k].pass \in during}}
    \cup {entered'[k].ep : k \in {k \in 1..Len(entered') : entered'[k].pass \in during}}

DiscoveryPasses == {"discover", "init_discover", "health"}

SyncPasses == {"byType", "init_sync", "syncOne"}

\* The GET the synchronizer needs for the type is not in the descriptor.
GetMissing(ep, type) ==
    IF type = "dimmer" THEN MULTILEVEL \notin topology[ep].get
    ELSE BINARY \notin topology[ep].get

C34_OneTimerPerClass ==
    /\ [](\A cls \in ReportClasses : Cardinality(TimersOf(cls)) <= 1)
    /\ [][\A cls \in ReportClasses :
             (lastStep'.op = "report" /\ lastStep'.cls = cls) =>
                 /\ TimersOf(cls) \cap TimersOf(cls)' = {}
                 /\ Cardinality(TimersOf(cls)') = 1
                 /\ \A t \in TimersOf(cls)' :
                        /\ t.left = SYNC_DEBOUNCE_MS
                        /\ t.h = syncTimeout'
                        /\ \A u \in timers : u.h # t.h]_vars
    /\ [][lastStep'.op = "syncByType" =>
             \E t \in timers \ timers' :
                 /\ t.h = syncTimeout
                 /\ t.cls = lastStep'.cls
                 /\ t.left = 0]_vars

\* A root report has just cleared the pending timer of its own class (the
\* other class has no report waiting, so no timer) and started a new one.
C34_Witness ==
    /\ lastStep.op = "report"
    /\ lastStep.ep = 1
    /\ \A cls \in ReportClasses \ {lastStep.cls} : ~owed[cls]
    /\ Cardinality(TimersOf(lastStep.cls)) = 1


\* The number of events of a type the step fired for endpoint ep.
Fired(type, ep) ==
    Cardinality({k \in 1..Len(events') : events'[k].type = type /\ events'[k].ep = ep})

NextDeletion ==
    \/ NodeInit
    \/ OnDeleted
    \/ \E cls \in ReportClasses : Report(cls)
    \/ \E i \in 1..MaxTasks, ok \in BOOLEAN : AddDone(i, ok)
    \/ \E i \in 1..MaxTasks, ok \in BOOLEAN : RemoveDone(i, ok)
    \/ \E i \in 1..MaxTasks, t \in {"dimmer", "switch"} :
         \E r \in GetResults(t) : GetDone(i, r)
    \/ \E i \in 1..MaxTasks, ok \in BOOLEAN : StoreDone(i, ok)
    \/ \E i \in 1..MaxTasks, r \in RegisterResults : RegisterDone(i, r)
    \/ \E i \in 1..MaxTasks, r \in StoreResults : DiscoverStoreDone(i, r)
    \/ \E i \in 1..MaxTasks, kept \in SUBSET AllCaps : WipeDone(i, kept)
    \/ \E i \in 1..MaxTasks, ok \in BOOLEAN : SettingsDone(i, ok)

SpecDeletion == InitNode /\ [][NextDeletion]_vars

\* C36: once onDeleted has run, no health-check interval is running, no
\* debounce timer is pending and no root listener is registered, in that
\* state and in every later one.
C36_NothingAfterDeleted ==
    deleted => /\ intervals = 0
               /\ ~healthCheckInterval
               /\ timers = {}
               /\ listeners = <<>>


\* ------------------------------------------- re-initialization specification

\* onNodeInit runs again and again, one run at a time.
NextReInit ==
    \/ NodeInit
    \/ ReInit
    \/ \E i \in 1..MaxTasks, ok \in BOOLEAN : AddDone(i, ok)
    \/ \E i \in 1..MaxTasks, ok \in BOOLEAN : RemoveDone(i, ok)
    \/ \E i \in 1..MaxTasks, t \in {"dimmer", "switch"} :
         \E r \in GetResults(t) : GetDone(i, r)
    \/ \E i \in 1..MaxTasks, ok \in BOOLEAN : StoreDone(i, ok)
    \/ \E i \in 1..MaxTasks, r \in RegisterResults : RegisterDone(i, r)
    \/ \E i \in 1..MaxTasks, r \in StoreResults : DiscoverStoreDone(i, r)
    \/ \E i \in 1..MaxTasks, kept \in SUBSET AllCaps : WipeDone(i, kept)
    \/ \E i \in 1..MaxTasks, ok \in BOOLEAN : SettingsDone(i, ok)

SpecReInit == InitNode /\ [][NextReInit]_vars

\* The number of registered root listeners of a command class.
Registered(cls) == Cardinality({k \in 1..Len(listeners) : listeners[k] = cls})

\* C37: whatever the number of onNodeInit runs, at most one root listener is
\* registered per command class and at most one health-check interval is
\* running; the handle is set exactly when an interval runs.
C37_OneListenerOneInterval ==
    /\ \A cls \in ReportClasses : Registered(cls) <= 1
    /\ intervals <= 1
    /\ healthCheckInterval <=> intervals = 1

\* A second onNodeInit has completed on a device whose first one had started
\* the interval: one interval is running and one listener per class is
\* registered.
C37_Witness ==
    /\ lastStep.op = "store_done"
    /\ lastStep.cls = "init_store"
    /\ lastStep.ep = 1
    /\ intervals = 1
    /\ \A cls \in ReportClasses : Registered(cls) = 1


NextToggle ==
    \/ \E ep \in Endpoints : ActionToggle(ep)
    \/ \E i \in 1..MaxCmds, ok \in BOOLEAN : CommandDone(i, ok)
    \/ \E i \in 1..MaxCmds : DelayDone(i)
    \/ Tick

SpecToggle == InitQueue /\ [][NextToggle]_vars

\* The step hands the head of the queue to its capability listener.
Shifted ==
    /\ Len(commandQueue) > 0
    /\ commandQueue' = Tail(commandQueue)
    /\ \E i \in 1..Len(loops') : /\ loops'[i].pc = "apply"
                                 /\ loops'[i].command = Head(commandQueue)

\* C39: when the value of a toggle is applied while the next toggle of the
\* same endpoint is already waiting behind it in the queue, the waiting toggle
\* carries the negation of the value being applied.
C39_TogglesAlternate ==
    [][(Shifted /\ Len(commandQueue) >= 2
          /\ commandQueue[2].capabilityId = commandQueue[1].capabilityId)
       => commandQueue[2].value = ~commandQueue[1].value]_vars

====
